---- MODULE Spec2Model ----
(***************************************************************************)
(* Model of blueprint's template engine (package template): the composer   *)
(* (composer.go: Compose, ComposeWithEnabledIncludes, GetAllIncludes and   *)
(* the merge helpers, over a loader that maps include paths to templates), *)
(* the renderer (renderer.go: RenderAll over an fs.FS) and the file loader *)
(* (loader.go: Load, Discover, DiscoverByType).                            *)
(***************************************************************************)
EXTENDS Integers, Sequences, FiniteSets, TLC

VARIABLES
    loader,           \* Composer.loader: include path -> Template (paths off the domain fail to load)
    root,             \* the *Template handed to Compose / GetAllIncludes
    enabledIncludes,  \* the map handed to ComposeWithEnabledIncludes
    call,             \* the operation called last
    out,              \* what the last call returned
    prev,             \* what the call before it returned, when it was the same call
    dst, src,         \* the arguments of a direct mergeDependencies call
    merged,           \* what that mergeDependencies call returned
    fsys,             \* the fs.FS of the Renderer and the FileLoader: path -> file or directory
    ctx,              \* Context.Variables handed to RenderAll
    appCtx,           \* app.Context: LocalFS, BuiltinFS, Resolver, Options
    flags,            \* the command line of blueprint init: template name and flags
    opts,             \* the scaffold.Options handed to Scaffold
    disk,             \* the file system Scaffold writes to: path -> content
    answers,          \* what the user does at the prompts
    pc,               \* where the caller of the scaffolder stands
    heap              \* the *Template objects and the arrays behind their slices

scaffoldVars == <<appCtx, flags, opts, disk, answers, pc>>

vars ==
    <<loader, root, enabledIncludes, call, out, prev, dst, src, merged, fsys, ctx,
      scaffoldVars, heap>>

----------------------------------------------------------------------------
(* Bounds of the model *)

\* Most include entries in one world of Spec, all templates together.
MaxEdges == 3
\* Most include entries in one world of SpecEnabled.
MaxEnabledEdges == 2
\* Longest dependency list handed to mergeDependencies in SpecDeps.
MaxDeps == 2
\* Most File entries of the template handed to RenderAll in SpecRender.
MaxFiles == 2

----------------------------------------------------------------------------
(* The data model: model.go *)

\* Include paths the loader is asked for.
Keys == {"a", "b", "c", "d"}
\* The path the root template was loaded from.
RootKey == "a"
\* Names the root template may carry: its own path, a string that is no
\* path, the path of another template.
RootNames == {"a", "r", "b"}

Template(name, variables, includes, dependencies, files, postInit) ==
    [Name |-> name, Type |-> "project", Version |-> "1", Description |-> "",
     Variables |-> variables, Includes |-> includes,
     Dependencies |-> dependencies, Files |-> files, PostInit |-> postInit]

Variable(name, prompt) == [Name |-> name, Prompt |-> prompt]
Include(template, enabledByDefault) ==
    [Template |-> template, EnabledByDefault |-> enabledByDefault]
File(srcPath, dest) == [Src |-> srcPath, Dest |-> dest]
PostInit(command) == [Command |-> command]

\* A nil *Template.
NilTemplate == Template("", <<>>, <<>>, <<>>, <<>>, <<>>)

----------------------------------------------------------------------------
(* Strings the composer takes apart are sequences of characters. *)

\* Faulty variant of Contains: only the last entry of the path is looked at
\* (a template including its own parent), so a longer cycle goes unnoticed.
ContainsLast(s, e) == Len(s) > 0 /\ s[Len(s)] = e

Contains(s, e) == \E i \in 1..Len(s) : s[i] = e

RECURSIVE indexOfAt(_, _)
indexOfAt(dep, i) ==
    IF i > Len(dep) THEN 0
    ELSE IF dep[i] = "@" THEN i
    ELSE indexOfAt(dep, i + 1)

\* parseDependency: split at the first '@'; no '@' gives an empty version.
parseDependency(dep) ==
    LET i == indexOfAt(dep, 1) IN
    IF i > 0
    THEN [pkg |-> SubSeq(dep, 1, i - 1), version |-> SubSeq(dep, i + 1, Len(dep))]
    ELSE [pkg |-> dep, version |-> <<>>]

\* A Go map as a function; m[k] = v adds or overwrites one entry.
EmptyMap == [k \in {} |-> <<>>]
MapPut(m, k, v) == [x \in (DOMAIN m) \cup {k} |-> IF x = k THEN v ELSE m[x]]

----------------------------------------------------------------------------
(* mergeDependencies *)

\* First loop: every dst entry is written to the map, a later entry of the
\* same package overwriting an earlier one.
RECURSIVE putDst(_, _, _)
putDst(depMap, deps, i) ==
    IF i > Len(deps) THEN depMap
    ELSE LET p == parseDependency(deps[i]) IN
         putDst(MapPut(depMap, p.pkg, p.version), deps, i + 1)

\* Faulty variant of putSrc: a src entry is written only when the package
\* is absent, so an unversioned dst entry is never upgraded.
RECURSIVE putSrcAbsentOnly(_, _, _)
putSrcAbsentOnly(depMap, deps, i) ==
    IF i > Len(deps) THEN depMap
    ELSE LET p == parseDependency(deps[i]) IN
         IF p.pkg \notin DOMAIN depMap
         THEN putSrcAbsentOnly(MapPut(depMap, p.pkg, p.version), deps, i + 1)
         ELSE putSrcAbsentOnly(depMap, deps, i + 1)

\* Second loop: a src entry is written only when the package is absent or
\* present with an empty version.
RECURSIVE putSrc(_, _, _)
putSrc(depMap, deps, i) ==
    IF i > Len(deps) THEN depMap
    ELSE LET p == parseDependency(deps[i]) IN
         IF p.pkg \notin DOMAIN depMap \/ depMap[p.pkg] = <<>>
         THEN putSrc(MapPut(depMap, p.pkg, p.version), deps, i + 1)
         ELSE putSrc(depMap, deps, i + 1)

\* package or package@version
renderDependency(pkg, version) ==
    IF version # <<>> THEN pkg \o <<"@">> \o version ELSE pkg

\* Third loop: range over the map. Go leaves the iteration order of a map
\* unspecified; order is the order this range happens to take, a sequence
\* listing every package once.
RECURSIVE rangeDepMap(_, _, _, _)
rangeDepMap(depMap, order, i, result) ==
    IF i > Len(order) THEN result
    ELSE IF order[i] \in DOMAIN depMap
    THEN rangeDepMap(depMap, order, i + 1,
                     Append(result, renderDependency(order[i], depMap[order[i]])))
    ELSE rangeDepMap(depMap, order, i + 1, result)

mergeDependencies(dstDeps, srcDeps, order) ==
    rangeDepMap(putSrc(putDst(EmptyMap, dstDeps, 1), srcDeps, 1), order, 1, <<>>)

----------------------------------------------------------------------------
(* mergeTemplate *)

\* Faulty variant of mergeVariables: a src variable whose name exists
\* replaces the existing definition (the later declaration wins).
RECURSIVE mergeVariablesLastWins(_, _, _, _)
mergeVariablesLastWins(dstVars, existingVars, srcVars, i) ==
    IF i > Len(srcVars) THEN dstVars
    ELSE IF srcVars[i].Name \notin existingVars
    THEN mergeVariablesLastWins(Append(dstVars, srcVars[i]),
                                existingVars \cup {srcVars[i].Name}, srcVars, i + 1)
    ELSE mergeVariablesLastWins(
             [j \in 1..Len(dstVars) |->
                 IF dstVars[j].Name = srcVars[i].Name THEN srcVars[i] ELSE dstVars[j]],
             existingVars, srcVars, i + 1)

\* Loop over src.Variables: append the ones whose name is not yet in
\* existingVars, recording each appended name.
RECURSIVE mergeVariables(_, _, _, _)
mergeVariables(dstVars, existingVars, srcVars, i) ==
    IF i > Len(srcVars) THEN dstVars
    ELSE IF srcVars[i].Name \notin existingVars
    THEN mergeVariables(Append(dstVars, srcVars[i]),
                        existingVars \cup {srcVars[i].Name}, srcVars, i + 1)
    ELSE mergeVariables(dstVars, existingVars, srcVars, i + 1)

\* Loop over src.Files: the same by destination path.
RECURSIVE mergeFiles(_, _, _, _)
mergeFiles(dstFiles, existingDests, srcFiles, i) ==
    IF i > Len(srcFiles) THEN dstFiles
    ELSE IF srcFiles[i].Dest \notin existingDests
    THEN mergeFiles(Append(dstFiles, srcFiles[i]),
                    existingDests \cup {srcFiles[i].Dest}, srcFiles, i + 1)
    ELSE mergeFiles(dstFiles, existingDests, srcFiles, i + 1)

\* Faulty variant of mergeTemplate: a command the destination already holds
\* is not appended again, as for Variables and Files.
mergeTemplateUniquePostInit(dstT, srcT, order) ==
    [dstT EXCEPT
        !.Variables = mergeVariables(dstT.Variables,
                          {dstT.Variables[j].Name : j \in 1..Len(dstT.Variables)},
                          srcT.Variables, 1),
        !.Dependencies = mergeDependencies(dstT.Dependencies, srcT.Dependencies, order),
        !.Files = mergeFiles(dstT.Files,
                          {dstT.Files[j].Dest : j \in 1..Len(dstT.Files)},
                          srcT.Files, 1),
        !.PostInit = dstT.PostInit \o
                     SelectSeq(srcT.PostInit,
                               LAMBDA p : \A j \in 1..Len(dstT.PostInit) :
                                             dstT.PostInit[j] # p)]

mergeTemplate(dstT, srcT, order) ==
    [dstT EXCEPT
        !.Variables = mergeVariables(dstT.Variables,
                          {dstT.Variables[j].Name : j \in 1..Len(dstT.Variables)},
                          srcT.Variables, 1),
        !.Dependencies = mergeDependencies(dstT.Dependencies, srcT.Dependencies, order),
        !.Files = mergeFiles(dstT.Files,
                          {dstT.Files[j].Dest : j \in 1..Len(dstT.Files)},
                          srcT.Files, 1),
        !.PostInit = dstT.PostInit \o srcT.PostInit]

----------------------------------------------------------------------------
(* The include filter of ComposeWithEnabledIncludes *)

\* Faulty variant of includeEnabled: kept when the map holds it as true or
\* the include is enabled by default, whatever the map holds.
includeEnabledOrDefault(inc, enabled) ==
    \/ inc.Template \in DOMAIN enabled /\ enabled[inc.Template]
    \/ inc.EnabledByDefault

\* The filter over one include: kept when the map holds it as true, or
\* holds no entry for it and the include is enabled by default.
includeEnabled(inc, enabled) ==
    LET exists == inc.Template \in DOMAIN enabled
        isEnabled == IF exists THEN enabled[inc.Template] ELSE FALSE
    IN IF exists /\ isEnabled THEN TRUE
       ELSE IF ~exists /\ inc.EnabledByDefault THEN TRUE
       ELSE FALSE

RECURSIVE filterIncludes(_, _, _, _)
filterIncludes(includes, enabled, i, kept) ==
    IF i > Len(includes) THEN kept
    ELSE IF includeEnabled(includes[i], enabled)
    THEN filterIncludes(includes, enabled, i + 1, Append(kept, includes[i]))
    ELSE filterIncludes(includes, enabled, i + 1, kept)

\* The filtered copy of tmpl that is handed to Compose.
filteredTemplate(tmpl, enabled) ==
    [tmpl EXCEPT !.Includes = filterIncludes(tmpl.Includes, enabled, 1, <<>>)]

----------------------------------------------------------------------------
(* Compose *)

\* What a call returns: the template or include list, the error, and, for
\* the checks, the resolution path and include an error names and the
\* loader.Load calls made, in order.
Result(err, tmpl, includes, path, at, loads) ==
    [err |-> err, tmpl |-> tmpl, includes |-> includes,
     path |-> path, at |-> at, loads |-> loads]
NoResult == Result("nocall", NilTemplate, <<>>, <<>>, "", <<>>)

\* Faulty variant of circularError: the path reported runs on to the include
\* that closes the cycle.
circularErrorClosed(path, inc, loads) ==
    Result("circular", NilTemplate, <<>>, Append(path, inc.Template), inc.Template, loads)

\* "circular dependency detected: <path> -> <include>": no template, the
\* resolution path of the current branch and the include found in it.
circularError(path, inc, loads) ==
    Result("circular", NilTemplate, <<>>, path, inc.Template, loads)

\* Faulty variant of loadError: the error comes with the template as far as
\* it was composed.
loadErrorPartial(path, inc, loads) ==
    Result("load", [root EXCEPT !.Includes = <<>>], <<>>, path, inc.Template,
           Append(loads, inc.Template))

\* "failed to load included template '<include>'": the loader was asked and
\* returned an error.
loadError(path, inc, loads) ==
    Result("load", NilTemplate, <<>>, path, inc.Template, Append(loads, inc.Template))

\* The deepest resolution path a walk over these loader paths can build: the
\* root and every path once. A longer one means the recursion is not
\* bounded by the cycle check, and the walk is cut there as "diverged".
StackLimit == Cardinality(Keys) + 1

\* The composed copy of tmpl: its own fields, Includes emptied.
composedCopy(tmpl) ==
    [tmpl EXCEPT !.Includes = <<>>]

RECURSIVE composeWithPath(_, _, _, _)
RECURSIVE composeIncludes(_, _, _, _, _, _)

\* The loop over tmpl.Includes from entry i on, composed being the
\* accumulator and loads the Load calls made so far.
composeIncludes(tmpl, path, composed, i, loads, order) ==
    IF i > Len(tmpl.Includes) THEN Result("none", composed, <<>>, path, "", loads)
    ELSE LET inc == tmpl.Includes[i] IN
         IF Contains(path, inc.Template)
         THEN circularError(path, inc, loads)
         ELSE IF inc.Template \notin DOMAIN loader
         THEN loadError(path, inc, loads)
         ELSE LET newPath == Append(path, inc.Template)
                  r == composeWithPath(loader[inc.Template], newPath,
                                       Append(loads, inc.Template), order)
              IN IF r.err # "none" THEN r
                 ELSE composeIncludes(tmpl, path,
                                      mergeTemplate(composed, r.tmpl, order),
                                      i + 1, r.loads, order)

\* Faulty variant of composeWithPath: the enabled map filters the includes
\* of every template of the walk, not only the root's.
composeWithPathFiltered(tmpl, path, loads, order) ==
    IF Len(path) > StackLimit
    THEN Result("diverged", NilTemplate, <<>>, path, "", loads)
    ELSE composeIncludes(filteredTemplate(tmpl, enabledIncludes), path,
                         composedCopy(tmpl), 1, loads, order)

composeWithPath(tmpl, path, loads, order) ==
    IF Len(path) > StackLimit
    THEN Result("diverged", NilTemplate, <<>>, path, "", loads)
    ELSE composeIncludes(tmpl, path, composedCopy(tmpl), 1, loads, order)

Compose(tmpl, order) == composeWithPath(tmpl, <<tmpl.Name>>, <<>>, order)

----------------------------------------------------------------------------
(* ComposeWithEnabledIncludes *)

ComposeWithEnabledIncludes(tmpl, enabled, order) ==
    Compose(filteredTemplate(tmpl, enabled), order)

----------------------------------------------------------------------------
(* GetAllIncludes *)

\* The inner loop: append the transitive includes not seen yet.
RECURSIVE appendUnseen(_, _, _, _)
appendUnseen(allIncludes, seen, transitiveIncludes, i) ==
    IF i > Len(transitiveIncludes) THEN [all |-> allIncludes, seen |-> seen]
    ELSE LET t == transitiveIncludes[i] IN
         IF t.Template \notin seen
         THEN appendUnseen(Append(allIncludes, t), seen \cup {t.Template},
                           transitiveIncludes, i + 1)
         ELSE appendUnseen(allIncludes, seen, transitiveIncludes, i + 1)

RECURSIVE getAllIncludesWithPath(_, _, _)
RECURSIVE collectIncludes(_, _, _, _, _, _)

\* The loop over tmpl.Includes from entry i on.
collectIncludes(tmpl, path, allIncludes, seen, i, loads) ==
    IF i > Len(tmpl.Includes) THEN Result("none", NilTemplate, allIncludes, path, "", loads)
    ELSE LET inc == tmpl.Includes[i] IN
         IF Contains(path, inc.Template)
         THEN circularError(path, inc, loads)
         ELSE LET all1 == IF inc.Template \notin seen
                          THEN Append(allIncludes, inc) ELSE allIncludes
                  seen1 == seen \cup {inc.Template}
              IN IF inc.Template \notin DOMAIN loader
                 THEN loadError(path, inc, loads)
                 ELSE LET newPath == Append(path, inc.Template)
                          r == getAllIncludesWithPath(loader[inc.Template], newPath,
                                                      Append(loads, inc.Template))
                      IN IF r.err # "none" THEN r
                         ELSE LET m == appendUnseen(all1, seen1, r.includes, 1)
                              IN collectIncludes(tmpl, path, m.all, m.seen,
                                                 i + 1, r.loads)

getAllIncludesWithPath(tmpl, path, loads) ==
    IF Len(path) > StackLimit
    THEN Result("diverged", NilTemplate, <<>>, path, "", loads)
    ELSE collectIncludes(tmpl, path, <<>>, {}, 1, loads)

\* Faulty variant of GetAllIncludes: the resolution path starts empty.
GetAllIncludesEmptyPath(tmpl) == getAllIncludesWithPath(tmpl, <<>>, <<>>)

GetAllIncludes(tmpl) == getAllIncludesWithPath(tmpl, <<tmpl.Name>>, <<>>)

----------------------------------------------------------------------------
(* The templates of the model. What template.yaml at each path declares is   *)
(* fixed, but for its includes and, for the root, its name and whether it    *)
(* is the short or the long definition. Prompt, Src and Command tell which  *)
(* definition an entry comes from.                                          *)

RECURSIVE SeqsOfLen(_, _)
SeqsOfLen(S, n) ==
    IF n = 0 THEN {<<>>}
    ELSE {Append(s, e) : s \in SeqsOfLen(S, n - 1), e \in S}

SeqsUpTo(S, n) == UNION {SeqsOfLen(S, m) : m \in 0..n}

VariablesOf(k, long) ==
    CASE k = "a" -> IF long
                    THEN <<Variable("x", "a1"), Variable("y", "a2"), Variable("x", "a3")>>
                    ELSE <<Variable("x", "a1")>>
      [] k = "b" -> <<Variable("y", "b1"), Variable("z", "b2"), Variable("y", "b3")>>
      [] k = "c" -> <<Variable("x", "c1"), Variable("w", "c2")>>
      [] k = "d" -> <<Variable("w", "d1"), Variable("z", "d2")>>

FilesOf(k, long) ==
    CASE k = "a" -> IF long
                    THEN <<File("a/main", "main"), File("a/readme", "readme"),
                           File("a/main2", "main")>>
                    ELSE <<File("a/main", "main")>>
      [] k = "b" -> <<File("b/log", "log"), File("b/readme", "readme")>>
      [] k = "c" -> <<File("c/log", "log"), File("c/cfg", "cfg"), File("c/cfg2", "cfg")>>
      [] k = "d" -> <<File("d/cfg", "cfg"), File("d/main", "main")>>

\* The dependency strings of the model: two packages, bare, with a version,
\* with a trailing '@' and with a second '@' in the version.
Foo == <<"f", "o", "o">>
Go == <<"g", "o">>
At(pkg, version) == pkg \o <<"@">> \o version
V123 == <<"1", ".", "2", ".", "3">>
V2 == <<"2">>
V3 == <<"3">>

DependenciesOf(k, long) ==
    CASE k = "a" -> IF long
                    THEN <<Go, At(Foo, V123), At(Go, V2)>>
                    ELSE <<Foo>>
      [] k = "b" -> <<At(Foo, V2), Go>>
      [] k = "c" -> <<At(Go, V3), Foo>>
      [] k = "d" -> <<At(Foo, <<>>), At(Go, V123), Go>>

PostInitOf(k, long) ==
    CASE k = "a" -> IF long THEN <<PostInit("a1"), PostInit("a2")>>
                    ELSE <<PostInit("a1")>>
      [] k = "b" -> <<PostInit("b1")>>
      [] k = "c" -> <<PostInit("c1"), PostInit("c2")>>
      [] k = "d" -> <<PostInit("d1")>>

MakeTemplate(k, name, long, includes) ==
    Template(name, VariablesOf(k, long), includes, DependenciesOf(k, long),
             FilesOf(k, long), PostInitOf(k, long))

\* Dependency strings handed to mergeDependencies directly.
DepStrings ==
    { Foo, At(Foo, V123), At(Foo, V2), At(Foo, <<>>), Go, At(Go, At(V2, V3)) }

\* Every package a map of the model can hold, and the orders a range over
\* such a map can take.
Packages == {Foo, Go}
MapOrders ==
    {o \in SeqsOfLen(Packages, Cardinality(Packages)) :
        \A i, j \in 1..Len(o) : i # j => o[i] # o[j]}

\* enabled_by_default as the includes of Spec carry it: by target.
DefaultOf(k) == k \in {"b", "d"}
SpecEntries == {Include(k, DefaultOf(k)) : k \in Keys}

\* The includes of SpecEnabled: three paths, either flag.
EnabledKeys == {"a", "b", "c"}
EnabledEntries == {Include(k, f) : k \in EnabledKeys, f \in BOOLEAN}
EnabledMaps == UNION {[S -> BOOLEAN] : S \in SUBSET EnabledKeys}

\* The paths reachable from the root over the include lists incs.
Targets(includes) == {includes[i].Template : i \in 1..Len(includes)}

RECURSIVE ReachFrom(_, _, _)
ReachFrom(incs, R, n) ==
    IF n = 0 THEN R
    ELSE ReachFrom(incs, R \cup UNION {Targets(incs[k]) : k \in R}, n - 1)

Reachable(incs) == ReachFrom(incs, {RootKey}, Cardinality(Keys))

\* A world: the include lists incs, the root's name and definition, and the
\* paths that fail to load. Only the worlds are drawn in which every
\* include list belongs to a template the walk can reach and a missing path
\* is one some reachable template includes.
WorldOk(incs, missing) ==
    /\ \A k \in Keys : incs[k] # <<>> => k \in Reachable(incs) \ missing
    /\ \A k \in missing : k \in Reachable(incs)

SetWorld(incs, name, long, missing) ==
    /\ loader = [k \in Keys \ missing |->
                    MakeTemplate(k, IF k = RootKey THEN name ELSE k,
                                 IF k = RootKey THEN long ELSE FALSE, incs[k])]
    /\ root = loader[RootKey]

DrawWorld(maxEdges, entries, names, longs, missings) ==
    \E la \in 0..maxEdges :
    \E lb \in 0..(maxEdges - la) :
    \E lc \in 0..(maxEdges - la - lb) :
    \E ld \in 0..(maxEdges - la - lb - lc) :
    \E ia \in SeqsOfLen(entries, la), ib \in SeqsOfLen(entries, lb),
       ic \in SeqsOfLen(entries, lc), id \in SeqsOfLen(entries, ld) :
    \E missing \in missings :
        LET incs == [k \in Keys |->
                        CASE k = "a" -> ia [] k = "b" -> ib
                          [] k = "c" -> ic [] k = "d" -> id]
        IN /\ WorldOk(incs, missing)
           /\ \E name \in names, long \in longs : SetWorld(incs, name, long, missing)

NoCall ==
    /\ call = "none"
    /\ out = NoResult
    /\ prev = NoResult

NoDeps ==
    /\ dst = <<>>
    /\ src = <<>>
    /\ merged = <<>>

NoFiles ==
    /\ fsys = EmptyMap
    /\ ctx = EmptyMap

NoScaffold ==
    /\ appCtx = EmptyMap
    /\ flags = EmptyMap
    /\ opts = EmptyMap
    /\ disk = EmptyMap
    /\ answers = EmptyMap
    /\ pc = "none"

NoHeap == heap = EmptyMap

----------------------------------------------------------------------------
(* Spec: Compose and GetAllIncludes over every world of at most MaxEdges    *)
(* include entries.                                                         *)

Init ==
    /\ DrawWorld(MaxEdges, SpecEntries, RootNames, BOOLEAN, {{}, {"d"}})
    /\ enabledIncludes = EmptyMap
    /\ NoCall
    /\ NoDeps
    /\ NoFiles
    /\ NoScaffold
    /\ NoHeap

\* A call of Compose(root). Every range over the dependency map may take any
\* order; the order of the last range is the order of the result, and the
\* orders before it change nothing, the packages of a map being distinct:
\* one order per call gives every result the call can give.
DoCompose ==
    \E order \in MapOrders :
        /\ call' = "Compose"
        /\ out' = Compose(root, order)
        /\ prev' = IF call = "Compose" THEN out ELSE NoResult
        /\ UNCHANGED <<loader, root, enabledIncludes, dst, src, merged, fsys, ctx,
                     scaffoldVars, heap>>

\* A call of GetAllIncludes(root).
DoGetAllIncludes ==
    /\ call' = "GetAllIncludes"
    /\ out' = GetAllIncludes(root)
    /\ prev' = IF call = "GetAllIncludes" THEN out ELSE NoResult
    /\ UNCHANGED <<loader, root, enabledIncludes, dst, src, merged, fsys, ctx,
                     scaffoldVars, heap>>

Next == DoCompose \/ DoGetAllIncludes

Spec == Init /\ [][Next]_vars

----------------------------------------------------------------------------
(* SpecEnabled: ComposeWithEnabledIncludes over worlds whose includes carry *)
(* either flag, with every enabled map.                                     *)

InitEnabled ==
    /\ DrawWorld(MaxEnabledEdges, EnabledEntries, {"r"}, {FALSE}, {{}})
    /\ enabledIncludes \in EnabledMaps
    /\ NoCall
    /\ NoDeps
    /\ NoFiles
    /\ NoScaffold
    /\ NoHeap

\* A call of ComposeWithEnabledIncludes(root, enabledIncludes).
DoComposeWithEnabledIncludes ==
    \E order \in MapOrders :
        /\ call' = "ComposeWithEnabledIncludes"
        /\ out' = ComposeWithEnabledIncludes(root, enabledIncludes, order)
        /\ prev' = IF call = "ComposeWithEnabledIncludes" THEN out ELSE NoResult
        /\ UNCHANGED <<loader, root, enabledIncludes, dst, src, merged, fsys, ctx,
                     scaffoldVars, heap>>

NextEnabled == DoComposeWithEnabledIncludes \/ DoCompose

SpecEnabled == InitEnabled /\ [][NextEnabled]_vars

----------------------------------------------------------------------------
(* SpecDeps: mergeDependencies on every pair of dependency lists of at most *)
(* MaxDeps entries.                                                         *)

InitDeps ==
    /\ loader = EmptyMap
    /\ root = NilTemplate
    /\ enabledIncludes = EmptyMap
    /\ NoCall
    /\ NoFiles
    /\ NoScaffold
    /\ NoHeap
    /\ dst \in SeqsUpTo(DepStrings, MaxDeps)
    /\ src \in SeqsUpTo(DepStrings, MaxDeps)
    /\ merged = <<>>

\* A call of mergeDependencies(dst, src).
DoMergeDependencies ==
    \E order \in MapOrders :
        /\ call' = "mergeDependencies"
        /\ merged' = mergeDependencies(dst, src, order)
        /\ UNCHANGED <<loader, root, enabledIncludes, out, prev, dst, src, fsys, ctx,
                     scaffoldVars, heap>>

NextDeps == DoMergeDependencies

SpecDeps == InitDeps /\ [][NextDeps]_vars

----------------------------------------------------------------------------
(* The include graph of a world, as the properties speak of it: its nodes   *)
(* are the templates (the root, loaded from RootKey, and the template at    *)
(* each path), its edges the include entries.                               *)

IncludesAt(k) == IF k \in DOMAIN loader THEN loader[k].Includes ELSE <<>>

RECURSIVE Closure(_, _)
Closure(R, n) ==
    IF n = 0 THEN R
    ELSE Closure(R \cup UNION {Targets(IncludesAt(k)) : k \in R}, n - 1)

\* The paths reachable from the paths in S, S included.
ReachFromSet(S) == Closure(S, Cardinality(Keys))
\* The paths the includes of tmpl lead to, directly or not.
ReachOf(tmpl) == ReachFromSet(Targets(tmpl.Includes))
\* Every include target reachable from tmpl loads.
AllLoad(tmpl) == ReachOf(tmpl) \subseteq DOMAIN loader
\* A template that a chain of includes leads back to is reachable from the root.
OnCycle(k) == k \in ReachFromSet(Targets(IncludesAt(k)))
Cyclic == \E k \in {RootKey} \cup ReachOf(root) : OnCycle(k)
\* The distinct templates of the graph under the root.
GraphTemplates == {RootKey} \cup ReachOf(root)

VarNames(tmpl) == {tmpl.Variables[i].Name : i \in 1..Len(tmpl.Variables)}
FileDests(tmpl) == {tmpl.Files[i].Dest : i \in 1..Len(tmpl.Files)}

Composed == call = "Compose" /\ out.err = "none"

----------------------------------------------------------------------------
(* C1 *)

\* C1: on an acyclic include graph whose include targets all load, Compose
\* returns no error, and the variable names of the result are the union of
\* the variable names of the root and of every reachable template; the same
\* for the file destinations.
C1_ComposeUnionOnAcyclic ==
    (call = "Compose" /\ ~Cyclic /\ AllLoad(root)) =>
        /\ out.err = "none"
        /\ VarNames(out.tmpl) =
               UNION {VarNames(loader[k]) : k \in GraphTemplates}
        /\ FileDests(out.tmpl) =
               UNION {FileDests(loader[k]) : k \in GraphTemplates}

----------------------------------------------------------------------------
(* C2 *)

\* C2: when a cycle is reachable from the root and every include target
\* loads, Compose and GetAllIncludes each end with the circular-dependency
\* error and return nothing: no template, no include list, no unbounded
\* recursion.
C2_CycleIsReported ==
    (call \in {"Compose", "GetAllIncludes"} /\ Cyclic /\ AllLoad(root)) =>
        /\ out.err = "circular"
        /\ out.tmpl = NilTemplate
        /\ out.includes = <<>>

\* A cycle below the root, none through it, found by Compose two levels down.
C2_Witness ==
    /\ call = "Compose"
    /\ Cyclic /\ AllLoad(root) /\ ~OnCycle(RootKey)
    /\ out.err = "circular"
    /\ Len(out.path) = 3

----------------------------------------------------------------------------
(* C3 *)

\* C3: the resolution path of a circular-dependency error is no longer than
\* the number of distinct templates of the graph plus one, whatever the
\* root's name.
C3_PathLength ==
    (call \in {"Compose", "GetAllIncludes"} /\ out.err = "circular") =>
        Len(out.path) <= Cardinality(GraphTemplates) + 1

\* The bound is met: the root's name is not the path it is included by, and
\* the cycle runs through the root and every other template.
C3_Witness ==
    /\ call = "GetAllIncludes"
    /\ out.err = "circular"
    /\ root.Name # RootKey
    /\ Cardinality(GraphTemplates) = 3
    /\ Len(out.path) = Cardinality(GraphTemplates) + 1

----------------------------------------------------------------------------
(* C4 *)

\* The include paths under a list of includes in depth-first order of
\* declaration, a path once for every way it is reached.
RECURSIVE VisitList(_, _, _)
VisitList(includes, i, fuel) ==
    IF i > Len(includes) \/ fuel = 0 THEN <<>>
    ELSE LET k == includes[i].Template IN
         (<<k>> \o VisitList(IncludesAt(k), 1, fuel - 1))
             \o VisitList(includes, i + 1, fuel)

PreOrder(tmpl) == VisitList(tmpl.Includes, 1, StackLimit)

RECURSIVE VariablesAlong(_, _)
VariablesAlong(keys, i) ==
    IF i > Len(keys) THEN <<>>
    ELSE loader[keys[i]].Variables \o VariablesAlong(keys, i + 1)

\* Every declaration of a variable in the order of the claim: the root's
\* own, then those of the includes depth-first.
DeclaredVariables(tmpl) == tmpl.Variables \o VariablesAlong(PreOrder(tmpl), 1)

\* The declarations that stay: the root's own, and after them each one no
\* earlier declaration has the name of.
RECURSIVE FirstDeclared(_, _, _)
FirstDeclared(decls, own, i) ==
    IF i > Len(decls) THEN <<>>
    ELSE (IF i <= own \/ \A j \in 1..(i - 1) : decls[j].Name # decls[i].Name
          THEN <<decls[i]>> ELSE <<>>)
         \o FirstDeclared(decls, own, i + 1)

\* C4: the Variables of the composed template are the root's own followed
\* by those of the includes depth-first in declaration order, each name kept
\* in the definition of the template that comes first in that order.
C4_VariableOrder ==
    Composed =>
        out.tmpl.Variables =
            FirstDeclared(DeclaredVariables(root), Len(root.Variables), 1)

\* The root includes b and c, b includes d; d and c both declare w, and the
\* definition kept is d's, which depth-first order reaches before c's.
C4_Witness ==
    /\ Composed
    /\ root.Includes = <<Include("b", DefaultOf("b")), Include("c", DefaultOf("c"))>>
    /\ IncludesAt("b") = <<Include("d", DefaultOf("d"))>>
    /\ \E i \in 1..Len(out.tmpl.Variables) : out.tmpl.Variables[i] = Variable("w", "d1")
    /\ \A i \in 1..Len(out.tmpl.Variables) : out.tmpl.Variables[i] # Variable("w", "c2")

----------------------------------------------------------------------------
(* C5 *)

\* C5: in a template Compose returns, with or without includes, no two
\* Variables have the same name and no two Files the same destination.
C5_NoDuplicates ==
    Composed =>
        /\ \A i, j \in 1..Len(out.tmpl.Variables) :
               i # j => out.tmpl.Variables[i].Name # out.tmpl.Variables[j].Name
        /\ \A i, j \in 1..Len(out.tmpl.Files) :
               i # j => out.tmpl.Files[i].Dest # out.tmpl.Files[j].Dest

----------------------------------------------------------------------------
(* C6 *)

\* The package of a dependency string: what stands before its first '@'.
PackageName(dep) ==
    LET n == CHOOSE n \in 0..Len(dep) :
                 /\ \A i \in 1..n : dep[i] # "@"
                 /\ n = Len(dep) \/ dep[n + 1] = "@"
    IN SubSeq(dep, 1, n)

\* A dependency string names a version when something follows its first '@'.
HasVersion(dep) == Len(dep) > Len(PackageName(dep)) + 1

PackagesIn(deps) == {PackageName(deps[i]) : i \in 1..Len(deps)}

\* deps declares package p, and every entry it has for p is without a version.
DeclaresBare(deps, p) ==
    /\ p \in PackagesIn(deps)
    /\ \A i \in 1..Len(deps) : PackageName(deps[i]) = p => ~HasVersion(deps[i])

\* deps declares package p, and every entry it has for p names a version.
DeclaresVersioned(deps, p) ==
    /\ p \in PackagesIn(deps)
    /\ \A i \in 1..Len(deps) : PackageName(deps[i]) = p => HasVersion(deps[i])

----------------------------------------------------------------------------
(* C7 *)

\* C7: the Dependencies of the composed template hold exactly one entry for
\* each package the root or a reachable template declares, and no other,
\* also when the root has no includes and when one template lists a package
\* twice.
C7_OneEntryPerPackage ==
    Composed =>
        /\ PackagesIn(out.tmpl.Dependencies) =
               UNION {PackagesIn(loader[k].Dependencies) : k \in GraphTemplates}
        /\ \A i, j \in 1..Len(out.tmpl.Dependencies) :
               i # j => PackageName(out.tmpl.Dependencies[i])
                            # PackageName(out.tmpl.Dependencies[j])

----------------------------------------------------------------------------
(* C8 *)

\* C8: two Compose calls on the same root with the same loader return the
\* same template, the order of its sequences included.
C8_ComposeDeterministic ==
    (call = "Compose" /\ prev.err # "nocall") => out = prev

----------------------------------------------------------------------------
(* C9 *)

\* The rule of the claim: the map holds the include as true, or holds no
\* entry for it and the include is enabled by default.
Selected(inc) ==
    IF inc.Template \in DOMAIN enabledIncludes
    THEN enabledIncludes[inc.Template]
    ELSE inc.EnabledByDefault

SelectedIncludes == SelectSeq(root.Includes, Selected)

Loaded(k) == Contains(out.loads, k)

----------------------------------------------------------------------------
(* C10 *)

\* C10: when ComposeWithEnabledIncludes succeeds, every template an accepted
\* direct include leads to was loaded and its variables and files are in
\* the result, whatever the enabled_by_default flag of the nested include
\* and whatever the map holds for it.
C10_NestedIncludesUnfiltered ==
    (call = "ComposeWithEnabledIncludes" /\ out.err = "none") =>
        \A i \in 1..Len(root.Includes) :
           Selected(root.Includes[i]) =>
              \A k \in ReachFromSet({root.Includes[i].Template}) :
                 /\ Loaded(k)
                 /\ VarNames(loader[k]) \subseteq VarNames(out.tmpl)
                 /\ FileDests(loader[k]) \subseteq FileDests(out.tmpl)

\* b is accepted by its default; the include of c nested in b is not enabled
\* by default and the map holds c as false: c is composed all the same.
C10_Witness ==
    /\ call = "ComposeWithEnabledIncludes"
    /\ out.err = "none"
    /\ root.Includes = <<Include("b", TRUE)>>
    /\ IncludesAt("b") = <<Include("c", FALSE)>>
    /\ enabledIncludes = [k \in {"c"} |-> FALSE]
    /\ Loaded("c")
    /\ "w" \in VarNames(out.tmpl)

----------------------------------------------------------------------------
(* C11 *)

\* The first occurrence of each path of keys, in the order of keys.
RECURSIVE FirstSeen(_, _)
FirstSeen(keys, i) ==
    IF i > Len(keys) THEN <<>>
    ELSE (IF \A j \in 1..(i - 1) : keys[j] # keys[i] THEN <<keys[i]>> ELSE <<>>)
         \o FirstSeen(keys, i + 1)

TargetsOf(includes) == [i \in 1..Len(includes) |-> includes[i].Template]

\* C11: on an acyclic include graph whose include targets all load,
\* GetAllIncludes returns no error and one include for every path reachable
\* from the root, in the order a depth-first walk first finds them, also
\* when a path is reached several ways.
C11_AllIncludesOnce ==
    (call = "GetAllIncludes" /\ ~Cyclic /\ AllLoad(root)) =>
        /\ out.err = "none"
        /\ TargetsOf(out.includes) = FirstSeen(PreOrder(root), 1)

----------------------------------------------------------------------------
(* C12 *)

\* The elements of a sequence.
Range(s) == {s[i] : i \in 1..Len(s)}

\* C12: GetAllIncludes(root) returns an error exactly when Compose(root)
\* does, and when both succeed the include targets GetAllIncludes returns
\* are the templates Compose loaded.
C12_SameWalk ==
    call = "GetAllIncludes" =>
        \A order \in MapOrders :
            LET c == Compose(root, order) IN
            /\ (out.err = "none") <=> (c.err = "none")
            /\ out.err = "none" => Targets(out.includes) = Range(c.loads)

\* Both succeed on a diamond: Compose loads some template twice, and
\* GetAllIncludes returns it once.
C12_Witness ==
    /\ call = "GetAllIncludes"
    /\ out.err = "none"
    /\ Len(out.includes) = 2
    /\ \E order \in MapOrders :
           LET c == Compose(root, order) IN
           c.err = "none" /\ Len(c.loads) > Len(out.includes)

----------------------------------------------------------------------------
(* C13 *)

\* The first n entries of keys that load, and the first one that does not.
RECURSIVE ThroughFirstMissing(_, _)
ThroughFirstMissing(keys, i) ==
    IF i > Len(keys) THEN <<>>
    ELSE IF keys[i] \notin DOMAIN loader THEN <<keys[i]>>
    ELSE <<keys[i]>> \o ThroughFirstMissing(keys, i + 1)

\* C13: when a Load of the walk fails, Compose returns the load error for
\* that include and no template, and the failing Load is the last one made:
\* the Load calls are those of the depth-first walk up to that include.
C13_LoadFailureAborts ==
    (call = "Compose" /\ \E i \in 1..Len(out.loads) : out.loads[i] \notin DOMAIN loader) =>
        /\ out.err = "load"
        /\ out.tmpl = NilTemplate
        /\ out.at = out.loads[Len(out.loads)]
        /\ out.loads = ThroughFirstMissing(PreOrder(root), 1)

\* The root includes the missing d and then b: b is never loaded.
C13_Witness ==
    /\ call = "Compose"
    /\ out.err = "load"
    /\ out.at = "d"
    /\ "d" \notin DOMAIN loader
    /\ Len(root.Includes) >= 2
    /\ root.Includes[1].Template = "d"
    /\ root.Includes[2].Template = "b"
    /\ out.loads = <<"d">>

----------------------------------------------------------------------------
(* The Renderer: renderer.go. A string is a sequence of its characters; in  *)
(* a template string an action of text/template stands as one element.      *)

\* "{{ .p }}": the value of the variable p.
VarP == "{{ .p }}"
\* "{{ toInt .p }}": the value of p converted by toInt.
IntP == "{{ toInt .p }}"
\* "{{ .p ": an action that is not closed, as in TestRenderString_ParseError.
Unclosed == "{{ .p "
Actions == {VarP, IntP, Unclosed}

\* What text/template prints for a key the map does not hold.
NoValue == <<"<", "n", "o", " ", "v", "a", "l", "u", "e", ">">>
Digits == {"0", "1", "2", "3", "4", "5", "6", "7", "8", "9"}

\* The digits a string starts with: what Sscanf("%d") reads of an unsigned
\* number.
RECURSIVE leadingDigits(_, _)
leadingDigits(val, i) ==
    IF i > Len(val) \/ val[i] \notin Digits THEN <<>>
    ELSE <<val[i]>> \o leadingDigits(val, i + 1)

\* What a call of RenderString returns.
Rendered(err, text) == [err |-> err, text |-> text]

\* toInt on the value of p, printed: an error for a missing value or a
\* string that starts with no digit.
toInt(variables) ==
    IF "p" \notin DOMAIN variables THEN Rendered("exec", <<>>)
    ELSE LET ds == leadingDigits(variables["p"], 1) IN
         IF ds = <<>> THEN Rendered("exec", <<>>) ELSE Rendered("none", ds)

\* tmpl.Execute from element i on, buf being the output so far.
RECURSIVE execute(_, _, _, _)
execute(content, variables, i, buf) ==
    IF i > Len(content) THEN Rendered("none", buf)
    ELSE IF content[i] = VarP
    THEN execute(content, variables, i + 1,
                 buf \o (IF "p" \in DOMAIN variables THEN variables["p"] ELSE NoValue))
    ELSE IF content[i] = IntP
    THEN LET n == toInt(variables) IN
         IF n.err # "none" THEN Rendered("exec", <<>>)
         ELSE execute(content, variables, i + 1, buf \o n.text)
    ELSE execute(content, variables, i + 1, Append(buf, content[i]))

\* Faulty variant of RenderString: an action that is not closed is taken for
\* text.
RenderStringLenient(content, variables) ==
    execute(content, variables, 1, <<>>)

\* RenderString: Parse, then Execute.
RenderString(content, variables) ==
    IF \E i \in 1..Len(content) : content[i] = Unclosed
    THEN Rendered("parse", <<>>)
    ELSE execute(content, variables, 1, <<>>)

RenderPath(pathTemplate, variables) == RenderString(pathTemplate, variables)

\* A file or directory of the fs.FS: a file has content and may fail to be
\* read, a directory has the names of its entries, sorted as fs.ReadDir
\* returns them.
FileNode(readable, content) ==
    [isDir |-> FALSE, readable |-> readable, content |-> content, entries |-> <<>>]
DirNode(entries) ==
    [isDir |-> TRUE, readable |-> TRUE, content |-> <<>>, entries |-> entries]

\* Render: read the file and render its content.
Render(templatePath, variables) ==
    IF ~fsys[templatePath].readable THEN Rendered("read", <<>>)
    ELSE RenderString(fsys[templatePath].content, variables)

\* Copy: read the file and return its content as it is.
Copy(filePath) ==
    IF ~fsys[filePath].readable THEN Rendered("read", <<>>)
    ELSE Rendered("none", fsys[filePath].content)

TmplExt == <<".", "t", "m", "p", "l">>

HasSuffix(s, suffix) ==
    /\ Len(s) >= Len(suffix)
    /\ SubSeq(s, Len(s) - Len(suffix) + 1, Len(s)) = suffix

TrimSuffix(s, suffix) ==
    IF HasSuffix(s, suffix) THEN SubSeq(s, 1, Len(s) - Len(suffix)) ELSE s

isTemplateFile(path) == HasSuffix(path, TmplExt)
stripTemplateExt(path) == TrimSuffix(path, TmplExt)

\* filepath.Join of two clean paths: an empty one is left out, and so is a
\* leading "." (Join ends with Clean).
Join(dir, name) ==
    IF dir = <<>> \/ dir = <<".">> THEN name
    ELSE IF name = <<>> THEN dir
    ELSE dir \o <<"/">> \o name

\* The state of a RenderAll call: the error and the source it came from, the
\* results map and, for the checks, the writes to it in order.
RenderState(err, at, results, writes) ==
    [err |-> err, at |-> at, results |-> results, writes |-> writes]

Write(srcPath, dest, content, rendered) ==
    [src |-> srcPath, dest |-> dest, content |-> content, rendered |-> rendered]

renderFail(st, err, srcPath) == RenderState(err, srcPath, st.results, st.writes)

\* Faulty variant of putResult: a destination already in the map keeps its
\* content.
putResultFirstWins(st, srcPath, dest, content, rendered) ==
    RenderState("none", <<>>,
                IF dest \in DOMAIN st.results THEN st.results
                ELSE MapPut(st.results, dest, content),
                Append(st.writes, Write(srcPath, dest, content, rendered)))

\* results[renderedDestPath] = content
putResult(st, srcPath, dest, content, rendered) ==
    RenderState("none", <<>>, MapPut(st.results, dest, content),
                Append(st.writes, Write(srcPath, dest, content, rendered)))

\* processFile: render the destination path, then render a .tmpl file
\* (its destination losing the extension) or copy any other file.
processFile(srcPath, destPath, variables, st) ==
    LET d == RenderPath(destPath, variables) IN
    IF d.err # "none" THEN renderFail(st, d.err, srcPath)
    ELSE IF isTemplateFile(srcPath)
    THEN LET c == Render(srcPath, variables) IN
         IF c.err # "none" THEN renderFail(st, c.err, srcPath)
         ELSE putResult(st, srcPath, stripTemplateExt(d.text), c.text, TRUE)
    ELSE LET c == Copy(srcPath) IN
         IF c.err # "none" THEN renderFail(st, c.err, srcPath)
         ELSE putResult(st, srcPath, d.text, c.text, FALSE)

RECURSIVE processPath(_, _, _, _)
RECURSIVE processEntries(_, _, _, _, _, _)

\* The loop of processDirectory over the entries from entry i on.
processEntries(srcDir, destDir, variables, entries, i, st) ==
    IF i > Len(entries) THEN st
    ELSE LET r == processPath(Join(srcDir, entries[i]), Join(destDir, entries[i]),
                              variables, st) IN
         IF r.err # "none" THEN r
         ELSE processEntries(srcDir, destDir, variables, entries, i + 1, r)

\* processDirectory: fs.ReadDir, then every entry in turn.
processDirectory(srcDir, destDir, variables, st) ==
    IF ~fsys[srcDir].readable THEN renderFail(st, "readdir", srcDir)
    ELSE processEntries(srcDir, destDir, variables, fsys[srcDir].entries, 1, st)

\* processPath: fs.Stat, then the directory or the file.
processPath(srcPath, destPath, variables, st) ==
    IF srcPath \notin DOMAIN fsys THEN renderFail(st, "stat", srcPath)
    ELSE IF fsys[srcPath].isDir THEN processDirectory(srcPath, destPath, variables, st)
    ELSE processFile(srcPath, destPath, variables, st)

\* Faulty variant of renderFiles: a file that fails is left out and the
\* files after it are still processed; the first error is the one returned.
RECURSIVE renderFilesSkipFailed(_, _, _, _)
renderFilesSkipFailed(files, variables, i, st) ==
    IF i > Len(files) THEN st
    ELSE LET r == processPath(files[i].Src, files[i].Dest, variables,
                              RenderState("none", <<>>, st.results, st.writes))
             n == renderFilesSkipFailed(files, variables, i + 1, r)
         IN IF st.err # "none" THEN RenderState(st.err, st.at, n.results, n.writes)
            ELSE n

\* The loop of RenderAll over tmpl.Files from entry i on.
RECURSIVE renderFiles(_, _, _, _)
renderFiles(files, variables, i, st) ==
    IF i > Len(files) THEN st
    ELSE LET r == processPath(files[i].Src, files[i].Dest, variables, st) IN
         IF r.err # "none" THEN r
         ELSE renderFiles(files, variables, i + 1, r)

\* What RenderAll returns: the map (nil with an error) and the error; the
\* source the error came from and the writes made are kept for the checks.
RenderResult(err, at, isNil, results, writes) ==
    [err |-> err, at |-> at, isNil |-> isNil, results |-> results, writes |-> writes]

\* Faulty variant of RenderAll: with an error comes the map as far as it
\* was filled.
RenderAllPartial(tmpl, variables) ==
    LET st == renderFiles(tmpl.Files, variables, 1,
                          RenderState("none", <<>>, EmptyMap, <<>>))
    IN RenderResult(st.err, st.at, FALSE, st.results, st.writes)

RenderAll(tmpl, variables) ==
    LET st == renderFiles(tmpl.Files, variables, 1,
                          RenderState("none", <<>>, EmptyMap, <<>>))
    IN IF st.err # "none"
       THEN RenderResult(st.err, st.at, TRUE, EmptyMap, st.writes)
       ELSE RenderResult("none", <<>>, FALSE, st.results, st.writes)

----------------------------------------------------------------------------
(* SpecRender: RenderAll on templates of at most MaxFiles File entries over *)
(* a file tree of a directory d (a plain file a, a template a.tmpl, a       *)
(* subdirectory s with a template b.tmpl) and a template c.tmpl.            *)

PathD == <<"d">>
NameA == <<"a">>
NameATmpl == NameA \o TmplExt
NameS == <<"s">>
NameBTmpl == <<"b">> \o TmplExt
PathDA == Join(PathD, NameA)
PathDATmpl == Join(PathD, NameATmpl)
PathDS == Join(PathD, NameS)
PathDSB == Join(PathDS, NameBTmpl)
PathC == <<"c">> \o TmplExt
PathMissing == <<"m">>

\* What a template file may hold: text, text with a variable, a conversion
\* that may fail, an action that does not parse.
Contents == { <<"h">>, <<"h", VarP>>, <<IntP>>, <<Unclosed, "h">> }
\* What the plain file holds: text that reads like an action.
PlainContent == <<"k", VarP>>

\* The values of p in the Context, when it has one.
Values == { <<"x">>, <<"7">> }
Contexts == {EmptyMap} \cup {[k \in {"p"} |-> v] : v \in Values}

\* The File entries a template may declare.
FileEntries ==
    { File(PathD, <<"o">>),
      File(PathD, <<VarP>>),
      File(PathC, <<"o", "/", "a">>),
      File(PathC, <<VarP>>),
      File(PathC, <<"o", Unclosed>>),
      File(PathC, <<IntP>>),
      File(PathMissing, <<"o">>),
      File(PathDA, <<"x">>) }

\* The names under d in the order fs.ReadDir lists them: sorted by name.
Listing(hasA, hasATmpl, hasS) ==
    (IF hasA THEN <<NameA>> ELSE <<>>)
        \o (IF hasATmpl THEN <<NameATmpl>> ELSE <<>>)
        \o (IF hasS THEN <<NameS>> ELSE <<>>)

\* The file tree: which files there are and what they hold.
MakeFS(hasA, hasATmpl, contentATmpl, sub, readableC, contentC) ==
    LET paths == {PathD, PathC}
                    \cup (IF hasA THEN {PathDA} ELSE {})
                    \cup (IF hasATmpl THEN {PathDATmpl} ELSE {})
                    \cup (IF sub # "none" THEN {PathDS} ELSE {})
                    \cup (IF sub = "file" THEN {PathDSB} ELSE {})
    IN [q \in paths |->
           CASE q = PathD -> DirNode(Listing(hasA, hasATmpl, sub # "none"))
             [] q = PathC -> FileNode(readableC, contentC)
             [] q = PathDA -> FileNode(TRUE, PlainContent)
             [] q = PathDATmpl -> FileNode(TRUE, contentATmpl)
             [] q = PathDS -> IF sub = "file" THEN DirNode(<<NameBTmpl>>)
                              ELSE [DirNode(<<>>) EXCEPT !.readable = FALSE]
             [] q = PathDSB -> FileNode(TRUE, <<"h", VarP>>)]

InitRender ==
    /\ loader = EmptyMap
    /\ enabledIncludes = EmptyMap
    /\ NoCall
    /\ NoDeps
    /\ NoScaffold
    /\ NoHeap
    /\ \E files \in SeqsUpTo(FileEntries, MaxFiles) :
           root = Template("r", <<>>, <<>>, <<>>, files, <<>>)
    /\ ctx \in Contexts
    /\ \E hasA, hasATmpl, readableC \in BOOLEAN :
       \E contentATmpl, contentC \in Contents :
       \E sub \in {"none", "file", "unreadable"} :
           /\ ~hasATmpl => contentATmpl = <<"h">>
           /\ ~readableC => contentC = <<"h">>
           /\ fsys = MakeFS(hasA, hasATmpl, contentATmpl, sub, readableC, contentC)

\* A call of RenderAll(root, ctx).
DoRenderAll ==
    /\ call' = "RenderAll"
    /\ out' = RenderAll(root, ctx)
    /\ UNCHANGED <<loader, root, enabledIncludes, prev, dst, src, merged, fsys, ctx,
                     scaffoldVars, heap>>

NextRender == DoRenderAll

SpecRender == InitRender /\ [][NextRender]_vars

----------------------------------------------------------------------------
(* The files a RenderAll call has to process, as the properties speak of    *)
(* them: every File entry, a directory replaced by the files below it.      *)

Leaf(srcPath, dest) == [src |-> srcPath, dest |-> dest]

RECURSIVE Leaves(_, _)
RECURSIVE LeavesOfEntries(_, _, _)

LeavesOfEntries(srcDir, destDir, i) ==
    IF i > Len(fsys[srcDir].entries) THEN <<>>
    ELSE Leaves(Join(srcDir, fsys[srcDir].entries[i]),
                Join(destDir, fsys[srcDir].entries[i]))
             \o LeavesOfEntries(srcDir, destDir, i + 1)

\* A source that is no readable directory is a leaf itself.
Leaves(srcPath, dest) ==
    IF srcPath \in DOMAIN fsys /\ fsys[srcPath].isDir /\ fsys[srcPath].readable
    THEN LeavesOfEntries(srcPath, dest, 1)
    ELSE <<Leaf(srcPath, dest)>>

RECURSIVE LeavesOfFiles(_, _)
LeavesOfFiles(files, i) ==
    IF i > Len(files) THEN <<>>
    ELSE Leaves(files[i].Src, files[i].Dest) \o LeavesOfFiles(files, i + 1)

AllLeaves == LeavesOfFiles(root.Files, 1)

\* How processing one leaf ends: "none" or the first error it meets.
LeafError(l) ==
    IF l.src \notin DOMAIN fsys THEN "stat"
    ELSE IF fsys[l.src].isDir THEN "readdir"
    ELSE IF RenderPath(l.dest, ctx).err # "none" THEN RenderPath(l.dest, ctx).err
    ELSE IF ~fsys[l.src].readable THEN "read"
    ELSE IF isTemplateFile(l.src) THEN RenderString(fsys[l.src].content, ctx).err
    ELSE "none"

\* The destination and the content a leaf that does not fail gives.
LeafDest(l) ==
    IF isTemplateFile(l.src) THEN TrimSuffix(RenderPath(l.dest, ctx).text, TmplExt)
    ELSE RenderPath(l.dest, ctx).text

LeafContent(l) ==
    IF isTemplateFile(l.src) THEN RenderString(fsys[l.src].content, ctx).text
    ELSE fsys[l.src].content

\* The first leaf that fails, 0 when none does.
FirstFailing(ls) ==
    IF \A i \in 1..Len(ls) : LeafError(ls[i]) = "none" THEN 0
    ELSE CHOOSE i \in 1..Len(ls) :
             /\ LeafError(ls[i]) # "none"
             /\ \A j \in 1..(i - 1) : LeafError(ls[j]) = "none"

\* The last leaf that gives destination d.
LastFor(ls, d) ==
    CHOOSE i \in 1..Len(ls) :
        /\ LeafDest(ls[i]) = d
        /\ \A j \in (i + 1)..Len(ls) : LeafDest(ls[j]) # d

----------------------------------------------------------------------------
(* C14 *)

----------------------------------------------------------------------------
(* C15 *)

IsPrefix(pre, q) == Len(pre) <= Len(q) /\ SubSeq(q, 1, Len(pre)) = pre

\* The files below the directory dir, at any depth.
FilesBelow(dir) ==
    {q \in DOMAIN fsys : ~fsys[q].isDir /\ IsPrefix(dir \o <<"/">>, q)}

\* The path of q relative to dir.
RelativeTo(dir, q) == SubSeq(q, Len(dir) + 2, Len(q))

\* The output entry the claim gives the file q below dir, dest being the
\* rendered destination of the directory.
KeyOf(dir, dest, q) ==
    IF HasSuffix(q, TmplExt) THEN TrimSuffix(Join(dest, RelativeTo(dir, q)), TmplExt)
    ELSE Join(dest, RelativeTo(dir, q))

\* C15: a template whose one File entry is the directory d, rendered without
\* error, gives one output entry for every file below d at any depth, keyed
\* by the rendered destination joined with the relative path, a .tmpl file
\* without the suffix and with its content rendered, any other file under
\* its own name with its content unchanged.
C15_DirectoryEntries ==
    (call = "RenderAll" /\ out.err = "none"
        /\ Len(root.Files) = 1 /\ root.Files[1].Src = PathD) =>
        LET dest == RenderPath(root.Files[1].Dest, ctx).text IN
        /\ Cardinality(DOMAIN out.results) = Cardinality(FilesBelow(PathD))
        /\ \A q \in FilesBelow(PathD) :
               /\ KeyOf(PathD, dest, q) \in DOMAIN out.results
               /\ out.results[KeyOf(PathD, dest, q)] =
                      IF HasSuffix(q, TmplExt)
                      THEN RenderString(fsys[q].content, ctx).text
                      ELSE fsys[q].content

----------------------------------------------------------------------------
(* C16 *)

\* C16: when the processing of some file fails (stat, read, directory
\* listing, destination path, parse or execution), RenderAll returns an
\* error and a nil map, whatever was rendered before.
C16_ErrorNoMapping ==
    (call = "RenderAll" /\ FirstFailing(AllLeaves) # 0) =>
        /\ out.err = LeafError(AllLeaves[FirstFailing(AllLeaves)])
        /\ out.isNil
        /\ out.results = EmptyMap

\* A file was rendered and written to the map before the one that fails in
\* execution.
C16_Witness ==
    /\ call = "RenderAll"
    /\ out.err = "exec"
    /\ out.isNil
    /\ \E i \in 1..Len(out.writes) : out.writes[i].rendered

----------------------------------------------------------------------------
(* C17 *)

\* C17 as stated: in a RenderAll call that ends with a parse error, no
\* file's content was rendered.
C17_ParseBeforeAnyRender ==
    (call = "RenderAll" /\ out.err = "parse") =>
        \A i \in 1..Len(out.writes) : ~out.writes[i].rendered

\* C17, amended: a parse error is met when the file it is in is processed.
\* The files before it in processing order were processed, the .tmpl files
\* among them rendered; the file itself and the files after it were not;
\* the call returns the error and a nil map.
C17_ParseWhenProcessed ==
    (call = "RenderAll" /\ out.err = "parse") =>
        LET k == FirstFailing(AllLeaves) IN
        /\ k # 0
        /\ LeafError(AllLeaves[k]) = "parse"
        /\ out.at = AllLeaves[k].src
        /\ out.isNil
        /\ Len(out.writes) = k - 1
        /\ \A i \in 1..(k - 1) :
               /\ out.writes[i].src = AllLeaves[i].src
               /\ out.writes[i].rendered = isTemplateFile(AllLeaves[i].src)
               /\ out.writes[i].content = LeafContent(AllLeaves[i])

\* The directory's a.tmpl was rendered before the parse error in c.tmpl was
\* met.
C17_Witness ==
    /\ call = "RenderAll"
    /\ out.err = "parse"
    /\ out.at = PathC
    /\ Len(out.writes) >= 1
    /\ \E i \in 1..Len(out.writes) :
           out.writes[i].src = PathDATmpl /\ out.writes[i].rendered

----------------------------------------------------------------------------
(* The FileLoader: loader.go. A path is the sequence of its elements and    *)
(* separators, <<"p", "/", "template.yaml">>; "." is the root of the fs.FS. *)

FileName == <<"template.yaml">>
Dot == <<".">>

\* The index of the last "/" of a path, 0 when it has none.
lastSlash(path) ==
    IF \A i \in 1..Len(path) : path[i] # "/" THEN 0
    ELSE CHOOSE i \in 1..Len(path) :
             path[i] = "/" /\ \A j \in (i + 1)..Len(path) : path[j] # "/"

\* filepath.Base and filepath.Dir.
Base(path) == SubSeq(path, lastSlash(path) + 1, Len(path))
Dir(path) == IF lastSlash(path) = 0 THEN Dot ELSE SubSeq(path, 1, lastSlash(path) - 1)

resolveTemplatePath(path) ==
    IF Base(path) = FileName THEN path ELSE Join(path, FileName)

\* The types of model.go.
Types == {"project", "feature", "component"}
VariableTypes == {"string", "int", "bool", "select", "multiselect"}

\* A []string as the validator sees it: nil, or a list that may be empty.
NilOptions == [isNil |-> TRUE, items |-> <<>>]
Options(items) == [isNil |-> FALSE, items |-> items]

\* A Variable as a template.yaml declares it.
TypedVariable(name, type, options) ==
    [Name |-> name, Prompt |-> "", Type |-> type, Options |-> options]

\* What a template.yaml holds: a document yaml.Unmarshal rejects, or the
\* fields of a Template (a key that is absent is the zero value).
Document(wellFormed, name, type, version, variables, files) ==
    [wellFormed |-> wellFormed, name |-> name, type |-> type, version |-> version,
     variables |-> variables, files |-> files]

\* yaml.Unmarshal of a well-formed document.
Unmarshal(doc) ==
    [Template(doc.name, doc.variables, <<>>, <<>>, doc.files, <<>>)
        EXCEPT !.Type = doc.type, !.Version = doc.version]

\* Faulty variant of validVariable: options are asked of no variable.
validVariableAnyOptions(v) ==
    /\ v.Name # ""
    /\ v.Type \in VariableTypes

\* The tags of Variable: name required, type one of the five, options
\* required (not nil) for select and for multiselect.
validVariable(v) ==
    /\ v.Name # ""
    /\ v.Type \in VariableTypes
    /\ v.Type = "select" => ~v.Options.isNil
    /\ v.Type = "multiselect" => ~v.Options.isNil

validInclude(inc) == inc.Template # ""
validFile(f) == f.Src # <<>> /\ f.Dest # <<>>
validPostInit(c) == c.Command # ""

\* Faulty variant of validateStruct: the name is not required.
validateStructAnyName(tmpl) ==
    /\ tmpl.Type \in Types
    /\ tmpl.Version # ""
    /\ \A i \in 1..Len(tmpl.Variables) : validVariable(tmpl.Variables[i])
    /\ \A i \in 1..Len(tmpl.Includes) : validInclude(tmpl.Includes[i])
    /\ \A i \in 1..Len(tmpl.Files) : validFile(tmpl.Files[i])
    /\ \A i \in 1..Len(tmpl.PostInit) : validPostInit(tmpl.PostInit[i])

\* validate.Struct on a Template: the tags of its fields, the lists dived
\* into.
validateStruct(tmpl) ==
    /\ tmpl.Name # ""
    /\ tmpl.Type \in Types
    /\ tmpl.Version # ""
    /\ \A i \in 1..Len(tmpl.Variables) : validVariable(tmpl.Variables[i])
    /\ \A i \in 1..Len(tmpl.Includes) : validInclude(tmpl.Includes[i])
    /\ \A i \in 1..Len(tmpl.Files) : validFile(tmpl.Files[i])
    /\ \A i \in 1..Len(tmpl.PostInit) : validPostInit(tmpl.PostInit[i])

\* What Load returns; the path read is kept for the checks.
LoadResult(err, tmpl, templatePath) == [err |-> err, tmpl |-> tmpl, path |-> templatePath]

\* Every File.Src joined to the directory of the template.yaml.
resolveSrc(files, tmplDir) ==
    [i \in 1..Len(files) |-> [files[i] EXCEPT !.Src = Join(tmplDir, files[i].Src)]]

\* Load: read, parse, validate, resolve the file sources.
Load(path) ==
    LET templatePath == resolveTemplatePath(path) IN
    IF templatePath \notin DOMAIN fsys \/ fsys[templatePath].isDir
           \/ ~fsys[templatePath].readable
    THEN LoadResult("read", NilTemplate, templatePath)
    ELSE IF ~fsys[templatePath].content.wellFormed
    THEN LoadResult("parse", NilTemplate, templatePath)
    ELSE LET tmpl == Unmarshal(fsys[templatePath].content) IN
         IF ~validateStruct(tmpl) THEN LoadResult("validation", NilTemplate, templatePath)
         ELSE LoadResult("none",
                     [tmpl EXCEPT !.Files = resolveSrc(tmpl.Files, Dir(templatePath))],
                     templatePath)

LoadFromDir(dir) == Load(Join(dir, FileName))

\* What Discover returns: the map of template directory -> name (nil with an
\* error) and the error.
Discovered(err, templates) == [err |-> err, templates |-> templates]

RECURSIVE walkDir(_, _)
RECURSIVE walkEntries(_, _, _)

\* Faulty variant of visitFile: a template.yaml that does not load ends the
\* walk with its error.
visitFileStrict(path, st) ==
    IF Base(path) # FileName THEN st
    ELSE LET r == Load(path) IN
         IF r.err # "none" THEN Discovered(r.err, st.templates)
         ELSE Discovered("none", MapPut(st.templates, Dir(path), r.tmpl.Name))

\* The callback of Discover on a file: a template.yaml that loads is entered
\* under its directory, one that does not is passed over.
visitFile(path, st) ==
    IF Base(path) # FileName THEN st
    ELSE LET r == Load(path) IN
         IF r.err # "none" THEN st
         ELSE Discovered("none", MapPut(st.templates, Dir(path), r.tmpl.Name))

\* fs.WalkDir below a directory: its entries in the order of fs.ReadDir.
walkEntries(dir, i, st) ==
    IF i > Len(fsys[dir].entries) THEN st
    ELSE LET r == walkDir(Join(dir, fsys[dir].entries[i]), st) IN
         IF r.err # "none" THEN r
         ELSE walkEntries(dir, i + 1, r)

\* fs.WalkDir at path: a directory that cannot be listed hands its error to
\* the callback, which returns it.
walkDir(path, st) ==
    IF ~fsys[path].isDir THEN visitFile(path, st)
    ELSE IF ~fsys[path].readable THEN Discovered("walk", st.templates)
    ELSE walkEntries(path, 1, st)

Discover ==
    LET st == walkDir(Dot, Discovered("none", EmptyMap)) IN
    IF st.err # "none" THEN Discovered(st.err, EmptyMap) ELSE st

\* The loop body of DiscoverByType: the template is loaded again and kept
\* when it loads and has the type.
keepType(path, templateType) ==
    LoadFromDir(path).err = "none" /\ LoadFromDir(path).tmpl.Type = templateType

DiscoverByType(templateType) ==
    LET allTemplates == Discover IN
    IF allTemplates.err # "none" THEN allTemplates
    ELSE Discovered("none",
             [q \in {k \in DOMAIN allTemplates.templates : keepType(k, templateType)}
                 |-> allTemplates.templates[q]])

----------------------------------------------------------------------------
(* SpecLoad: Load, Discover and DiscoverByType over a tree that may hold a  *)
(* template.yaml at its root, in the directory p and in p's directory n.    *)

PathP == <<"p">>
NameN == <<"n">>
PathPN == Join(PathP, NameN)
TemplateDirs == {Dot, PathP, PathPN}

GoodProject == Document(TRUE, "go-cli", "project", "1.0.0", <<>>, <<>>)
GoodFeature ==
    Document(TRUE, "testing", "feature", "1.0.0",
             <<TypedVariable("db", "select", Options(<<"pg">>)),
               TypedVariable("port", "int", NilOptions)>>,
             <<File(<<"main.go">>, <<"main.go">>)>>)

\* The definitions a template.yaml may hold: the two good ones, and ones
\* with a field missing or wrong.
Documents ==
    { GoodProject,
      GoodFeature,
      Document(FALSE, "", "", "", <<>>, <<>>),
      [GoodProject EXCEPT !.name = ""],
      [GoodProject EXCEPT !.name = "", !.version = ""],
      [GoodFeature EXCEPT !.type = "library"],
      [GoodFeature EXCEPT !.type = ""],
      [GoodFeature EXCEPT !.version = ""],
      [GoodFeature EXCEPT !.files = <<>>],
      [GoodProject EXCEPT !.variables = <<TypedVariable("db", "select", NilOptions)>>],
      [GoodProject EXCEPT !.variables = <<TypedVariable("db", "multiselect", NilOptions)>>],
      [GoodProject EXCEPT !.variables = <<TypedVariable("db", "select", Options(<<>>))>>],
      [GoodFeature EXCEPT !.files = <<File(<<"main.go">>, <<>>)>>] }

\* What a template directory holds: nothing, a template.yaml that cannot be
\* read, or a template.yaml with a definition.
Holdings ==
    {[kind |-> "none", doc |-> GoodProject], [kind |-> "unreadable", doc |-> GoodProject]}
        \cup {[kind |-> "file", doc |-> d] : d \in Documents}

\* The entries of a directory, sorted by name as fs.ReadDir lists them: the
\* subdirectories ("n", "p"), then template.yaml when it holds one.
DirEntries(holding, subdirs) ==
    subdirs \o (IF holding.kind # "none" THEN <<FileName>> ELSE <<>>)

DefinitionNode(holding) == FileNode(holding.kind = "file", holding.doc)

\* The tree: p is always there, n when it holds a template.yaml or cannot be
\* listed.
MakeTree(atRoot, atP, atN, listableN) ==
    LET hasN == atN.kind # "none" \/ ~listableN
        paths == {Dot, PathP}
                    \cup (IF hasN THEN {PathPN} ELSE {})
                    \cup {Join(dir, FileName) :
                            dir \in {d \in TemplateDirs :
                                       \/ d = Dot /\ atRoot.kind # "none"
                                       \/ d = PathP /\ atP.kind # "none"
                                       \/ d = PathPN /\ atN.kind # "none"}}
    IN [q \in paths |->
           CASE q = Dot -> DirNode(DirEntries(atRoot, <<PathP>>))
             [] q = PathP -> DirNode(DirEntries(atP, IF hasN THEN <<NameN>> ELSE <<>>))
             [] q = PathPN -> [DirNode(DirEntries(atN, <<>>)) EXCEPT !.readable = listableN]
             [] q = Join(Dot, FileName) -> DefinitionNode(atRoot)
             [] q = Join(PathP, FileName) -> DefinitionNode(atP)
             [] q = Join(PathPN, FileName) -> DefinitionNode(atN)]

\* The paths Load is called with: a directory, a template.yaml, a path that
\* is not there.
LoadPaths ==
    TemplateDirs \cup {Join(d, FileName) : d \in TemplateDirs} \cup {<<"q">>}

InitLoad ==
    /\ loader = EmptyMap
    /\ root = NilTemplate
    /\ enabledIncludes = EmptyMap
    /\ ctx = EmptyMap
    /\ NoCall
    /\ NoDeps
    /\ NoScaffold
    /\ NoHeap
    /\ \E atRoot \in {h \in Holdings : h.kind = "none" \/ h.doc \in {GoodProject, GoodFeature}},
          atP, atN \in Holdings, listableN \in BOOLEAN :
           /\ ~listableN => atN.kind = "none"
           /\ fsys = MakeTree(atRoot, atP, atN, listableN)

\* A call of Load(path).
DoLoad ==
    \E path \in LoadPaths :
        /\ call' = "Load"
        /\ out' = Load(path)
        /\ UNCHANGED <<loader, root, enabledIncludes, prev, dst, src, merged, fsys, ctx,
                     scaffoldVars, heap>>

\* A call of Discover().
DoDiscover ==
    /\ call' = "Discover"
    /\ out' = Discover
    /\ UNCHANGED <<loader, root, enabledIncludes, prev, dst, src, merged, fsys, ctx,
                     scaffoldVars, heap>>

\* A call of DiscoverByType(templateType).
DoDiscoverByType ==
    \E templateType \in Types :
        /\ call' = "DiscoverByType"
        /\ out' = [err |-> DiscoverByType(templateType).err,
                   templates |-> DiscoverByType(templateType).templates,
                   type |-> templateType]
        /\ UNCHANGED <<loader, root, enabledIncludes, prev, dst, src, merged, fsys, ctx,
                     scaffoldVars, heap>>

NextLoad == DoLoad \/ DoDiscover \/ DoDiscoverByType

SpecLoad == InitLoad /\ [][NextLoad]_vars

----------------------------------------------------------------------------
(* The definitions on disk, as the properties speak of them. *)

\* There is a template.yaml at path that can be read and parsed.
HasDefinition(path) ==
    /\ path \in DOMAIN fsys
    /\ ~fsys[path].isDir
    /\ fsys[path].readable
    /\ fsys[path].content.wellFormed

DefinitionAt(path) == fsys[path].content

\* A select or multiselect variable of doc whose options satisfy P.
ChoiceWith(doc, P(_)) ==
    \E i \in 1..Len(doc.variables) :
        /\ doc.variables[i].Type \in {"select", "multiselect"}
        /\ P(doc.variables[i].Options)

OptionsAbsent(o) == o.isNil
OptionsEmpty(o) == o.items = <<>>

\* name, type and version are as required.
TopLevelOk(doc) == doc.name # "" /\ doc.type \in Types /\ doc.version # ""

----------------------------------------------------------------------------
(* C18 *)

\* C18: Load of a definition whose name is empty, whose type is none of
\* project, feature, component, or whose version is empty returns a
\* validation error and no template.
C18_RequiredFieldsValidated ==
    (call = "Load" /\ HasDefinition(out.path) /\ ~TopLevelOk(DefinitionAt(out.path))) =>
        /\ out.err = "validation"
        /\ out.tmpl = NilTemplate

\* A definition with an empty name and nothing else wrong is rejected.
C18_Witness ==
    /\ call = "Load"
    /\ HasDefinition(out.path)
    /\ DefinitionAt(out.path) = [GoodProject EXCEPT !.name = ""]
    /\ out.err = "validation"

----------------------------------------------------------------------------
(* C19 *)

----------------------------------------------------------------------------
(* C20 *)

\* Every directory of the tree can be listed.
AllListable == \A q \in DOMAIN fsys : fsys[q].isDir => fsys[q].readable

\* The template directories whose template.yaml loads.
LoadingDirs == {d \in TemplateDirs : Load(Join(d, FileName)).err = "none"}

\* C20: when the walk meets no directory it cannot list, Discover returns
\* no error and exactly the directories whose template.yaml loads, each
\* with the name of its template, whatever else does not read, parse or
\* validate; DiscoverByType(t) returns exactly the entries of Discover
\* whose template has type t.
C20_DiscoverSkipsFailures ==
    /\ (call = "Discover" /\ AllListable) =>
           /\ out.err = "none"
           /\ DOMAIN out.templates = LoadingDirs
           /\ \A d \in LoadingDirs :
                  out.templates[d] = DefinitionAt(Join(d, FileName)).name
    /\ (call = "DiscoverByType" /\ AllListable) =>
           /\ out.err = "none"
           /\ DOMAIN out.templates =
                  {d \in DOMAIN Discover.templates :
                      DefinitionAt(Join(d, FileName)).type = out.type}
           /\ \A d \in DOMAIN out.templates : out.templates[d] = Discover.templates[d]

\* Three template.yaml files: one does not validate, one is a feature, one
\* a project; DiscoverByType returns the one of its type.
C20_Witness ==
    /\ call = "DiscoverByType"
    /\ out.err = "none"
    /\ Cardinality(DOMAIN out.templates) = 1
    /\ Cardinality(DOMAIN Discover.templates) = 2
    /\ \E d \in TemplateDirs :
           /\ HasDefinition(Join(d, FileName))
           /\ d \notin DOMAIN Discover.templates

----------------------------------------------------------------------------
(* C24 *)

\* The user selected the include: the enabled map holds its path as true.
UserSelected(inc) ==
    /\ inc.Template \in DOMAIN enabledIncludes
    /\ enabledIncludes[inc.Template]

\* C24: when ComposeWithEnabledIncludes succeeds, every direct include the
\* user selected or that has enabled_by_default true was composed (its
\* template loaded, its variables in the result), whatever the enabled map
\* holds for an include that is enabled by default.
C24_SelectedOrDefault ==
    (call = "ComposeWithEnabledIncludes" /\ out.err = "none") =>
        \A i \in 1..Len(root.Includes) :
           LET inc == root.Includes[i] IN
           (UserSelected(inc) \/ inc.EnabledByDefault) =>
               /\ Loaded(inc.Template)
               /\ VarNames(loader[inc.Template]) \subseteq VarNames(out.tmpl)

----------------------------------------------------------------------------
(* C29 *)

RECURSIVE PostInitAlong(_, _)
PostInitAlong(keys, i) ==
    IF i > Len(keys) THEN <<>>
    ELSE loader[keys[i]].PostInit \o PostInitAlong(keys, i + 1)

\* The commands of the claim: the root's own, then those of the includes
\* depth-first in declaration order, a template's commands once for every
\* include path that reaches it.
DeclaredPostInit(tmpl) == tmpl.PostInit \o PostInitAlong(PreOrder(tmpl), 1)

\* C29: the PostInit of the composed template is the root's own commands
\* followed by the commands of the includes depth-first in declaration
\* order, none dropped, none reordered, and a template's commands once for
\* each include path that reaches the template.
C29_PostInitOrder ==
    Composed => out.tmpl.PostInit = DeclaredPostInit(root)

\* The root includes b and c, b includes c: the commands of c are in the
\* result twice, after b's and again at the end.
C29_Witness ==
    /\ Composed
    /\ Targets(root.Includes) = {"b", "c"}
    /\ root.Includes[1].Template = "b"
    /\ Targets(IncludesAt("b")) = {"c"}
    /\ out.tmpl.PostInit =
           <<PostInit("a1"), PostInit("b1"), PostInit("c1"), PostInit("c2"),
             PostInit("c1"), PostInit("c2")>>

----------------------------------------------------------------------------
(* Template resolution: package app (resolver.go, resolver_fs.go, the chain *)
(* resolver). An fs.FS of templates is a map from the path of a template    *)
(* directory to the template defined there.                                 *)

ErrTemplateNotFound == "template not found"
\* An error that is not ErrTemplateNotFound and does not wrap it.
ErrPermission == "permission denied"

\* Type.Folder
Folder(type) ==
    CASE type = "project" -> <<"p", "r", "o", "j", "e", "c", "t", "s">>
      [] type = "feature" -> <<"f", "e", "a", "t", "u", "r", "e", "s">>
      [] type = "component" -> <<"c", "o", "m", "p", "o", "n", "e", "n", "t", "s">>

TemplateRef(name, type) == [Name |-> name, Type |-> type]

\* What a Resolver returns: the error, or the file system (by the field of
\* app.Context that holds it) and the path in it.
ResolvedTemplate(fs, path) == [err |-> "none", FS |-> fs, Path |-> path]
NotResolved(err) == [err |-> err, FS |-> "none", Path |-> <<>>]

ResolveFromFS(actx, fs, ref) ==
    LET templatePath == Join(Folder(ref.Type), ref.Name) IN
    IF templatePath \notin DOMAIN actx[fs] THEN NotResolved(ErrTemplateNotFound)
    ELSE ResolvedTemplate(fs, templatePath)

\* The implementations of Resolver: the two of resolver_fs.go, and any other
\* implementation, given by what it returns.
ResolverLocal == [kind |-> "ResolverLocal"]
ResolverBuiltin == [kind |-> "ResolverBuiltin"]
ResolverOther(returns) == [kind |-> "other", returns |-> returns]

\* r.Resolve(ctx, ref)
resolve(r, actx, ref) ==
    CASE r.kind = "ResolverLocal" -> ResolveFromFS(actx, "LocalFS", ref)
      [] r.kind = "ResolverBuiltin" -> ResolveFromFS(actx, "BuiltinFS", ref)
      [] r.kind = "other" -> r.returns

\* What ChainResolver.Resolve returns, and for the checks the resolvers it
\* called, by position.
ChainResult(res, called) == [res |-> res, called |-> called]

\* The loop of ChainResolver.Resolve from resolver i on, and what follows it.
RECURSIVE chainLoop(_, _, _, _, _, _)
chainLoop(resolvers, actx, ref, i, lastErr, called) ==
    IF i > Len(resolvers)
    THEN ChainResult(NotResolved(IF lastErr # "none" THEN lastErr
                                 ELSE ErrTemplateNotFound), called)
    ELSE LET r == resolve(resolvers[i], actx, ref) IN
         IF r.err = "none" THEN ChainResult(r, Append(called, i))
         ELSE chainLoop(resolvers, actx, ref, i + 1, r.err, Append(called, i))

\* ChainResolver.Resolve
ChainResolve(actx, ref) == chainLoop(actx.Resolver, actx, ref, 1, "none", <<>>)

----------------------------------------------------------------------------
(* SpecChain: ChainResolver.Resolve over every chain of at most             *)
(* MaxResolvers resolvers.                                                  *)

\* Most resolvers in a chain of SpecChain.
MaxResolvers == 3

PathProjectsA == Join(Folder("project"), NameA)
PathElsewhere == <<"e">>

\* The resolvers of a chain: the two of the repository and others that
\* succeed, do not find the template, or fail for another reason.
ResolverKinds ==
    { ResolverLocal, ResolverBuiltin,
      ResolverOther(ResolvedTemplate("other", PathElsewhere)),
      ResolverOther(NotResolved(ErrTemplateNotFound)),
      ResolverOther(NotResolved(ErrPermission)) }

\* A file system that holds the project a, or nothing.
TemplateFS(hasA) ==
    [q \in (IF hasA THEN {PathProjectsA} ELSE {}) |->
        Template("a", <<>>, <<>>, <<>>, <<>>, <<>>)]

InitChain ==
    /\ loader = EmptyMap
    /\ root = NilTemplate
    /\ enabledIncludes = EmptyMap
    /\ NoCall
    /\ NoDeps
    /\ NoFiles
    /\ NoHeap
    /\ \E inLocal, inBuiltin \in BOOLEAN :
       \E chain \in SeqsUpTo(ResolverKinds, MaxResolvers) :
           appCtx = [LocalFS |-> TemplateFS(inLocal),
                     BuiltinFS |-> TemplateFS(inBuiltin),
                     Resolver |-> chain]
    /\ flags = EmptyMap
    /\ opts = EmptyMap
    /\ disk = EmptyMap
    /\ answers = EmptyMap
    /\ pc = "none"

\* A call of appCtx.Resolver.Resolve(appCtx, ref) for the project a.
DoResolve ==
    /\ call' = "Resolve"
    /\ out' = ChainResolve(appCtx, TemplateRef(NameA, "project"))
    /\ UNCHANGED <<loader, root, enabledIncludes, prev, dst, src, merged, fsys, ctx,
                   scaffoldVars, heap>>

NextChain == DoResolve

SpecChain == InitChain /\ [][NextChain]_vars

----------------------------------------------------------------------------
(* C28 *)

\* The position of the first resolver of the chain that succeeds, 0 when
\* there is none.
FirstResolving ==
    LET ref == TemplateRef(NameA, "project")
        ok == {i \in 1..Len(appCtx.Resolver) :
                  resolve(appCtx.Resolver[i], appCtx, ref).err = "none"}
    IN IF ok = {} THEN 0 ELSE CHOOSE i \in ok : \A j \in ok : i <= j

\* C28: ChainResolver.Resolve returns what the first resolver that succeeds
\* returns and calls no resolver after it; when no resolver succeeds, or
\* the chain is empty, it returns ErrTemplateNotFound, whatever errors the
\* resolvers returned.
C28_ChainResolve ==
    call = "Resolve" =>
        IF FirstResolving # 0
        THEN /\ out.res = resolve(appCtx.Resolver[FirstResolving], appCtx,
                                  TemplateRef(NameA, "project"))
             /\ out.called = [i \in 1..FirstResolving |-> i]
        ELSE /\ out.res.err = ErrTemplateNotFound
             /\ out.called = [i \in 1..Len(appCtx.Resolver) |-> i]

----------------------------------------------------------------------------
(* The scaffolder: package scaffold (Scaffolder.Scaffold, the Writer), the  *)
(* prompt collector it asks (package prompt) and the init command that      *)
(* calls it (cmd/init.go).                                                  *)

RoleProjectName == "project_name"
NoRole == ""

\* Variable.Default: nil, or a string.
NoDefault == [isNil |-> TRUE, value |-> <<>>]
Default(value) == [isNil |-> FALSE, value |-> value]

\* A string Variable with its role and default.
RoleVariable(name, role, default) ==
    [Name |-> name, Prompt |-> "", Role |-> role, Default |-> default]

\* Context.Merge
Merge(variables, other) ==
    [k \in (DOMAIN variables) \cup (DOMAIN other) |->
        IF k \in DOMAIN other THEN other[k] ELSE variables[k]]

\* What the user types into an input field, whatever it is filled with.
Typed == <<"u">>

\* Engine.PromptIncludes: the multi-select starts with the includes that
\* are enabled by default; the user toggles the entries of ans.toggled; the
\* map holds what is selected in the end, as true.
PromptIncludes(includes, ans) ==
    LET offered == Targets(includes)
        preselected == {includes[i].Template : i \in
                           {j \in 1..Len(includes) : includes[j].EnabledByDefault}}
        selected == (preselected \ ans.toggled)
                       \cup ((offered \ preselected) \cap ans.toggled)
    IN [k \in selected |-> TRUE]

\* Engine.PromptVariablesAsForm: one field per variable, the context holds
\* what the user typed for every one of them.
PromptVariablesAsForm(variables) ==
    [k \in {variables[i].Name : i \in 1..Len(variables)} |-> Typed]

\* Collector.CollectWithIncludes
CollectWithIncludes(tmpl, allIncludes, ans) ==
    [enabledIncludes |-> IF Len(allIncludes) > 0
                         THEN PromptIncludes(allIncludes, ans) ELSE EmptyMap,
     ctx |-> PromptVariablesAsForm(tmpl.Variables)]

\* Collector.GetMissingVariables
GetMissingVariables(tmpl, variables) ==
    SelectSeq(tmpl.Variables, LAMBDA v : v.Name \notin DOMAIN variables)

\* Collector.CollectMissing
CollectMissing(tmpl, variables) ==
    Merge(variables, PromptVariablesAsForm(GetMissingVariables(tmpl, variables)))

\* Collector.ValidateContext: no variable is without a value and without a
\* default.
ValidateContext(tmpl, variables) ==
    \A i \in 1..Len(tmpl.Variables) :
        ~(tmpl.Variables[i].Name \notin DOMAIN variables
            /\ tmpl.Variables[i].Default.isNil)

\* The file system Scaffold writes to: a path holds a file with its content
\* or is a directory.
DiskFile(content) == [isDir |-> FALSE, content |-> content]
DiskDir == [isDir |-> TRUE, content |-> <<>>]

\* The directories above a path, the nearest first.
RECURSIVE Ancestors(_)
Ancestors(path) ==
    IF Dir(path) = Dot THEN <<>> ELSE <<Dir(path)>> \o Ancestors(Dir(path))

\* os.Stat(path) returns no error.
Stat(d, path) == path \in DOMAIN d

\* Writer.EnsureDir: os.MkdirAll, which fails when the path or a directory
\* above it is a file, and creates nothing then.
EnsureDir(d, path) ==
    IF path = <<>> \/ path = Dot THEN [err |-> "none", disk |-> d]
    ELSE LET dirs == {path} \cup Range(Ancestors(path)) IN
         IF \E q \in dirs : q \in DOMAIN d /\ ~d[q].isDir
         THEN [err |-> "mkdir", disk |-> d]
         ELSE [err |-> "none",
               disk |-> [q \in (DOMAIN d) \cup dirs |->
                            IF q \in DOMAIN d THEN d[q] ELSE DiskDir]]

\* Writer.WriteFile: the parent directories, then os.WriteFile, which fails
\* on a directory.
WriteFile(d, path, content) ==
    LET e == EnsureDir(d, Dir(path)) IN
    IF e.err # "none" THEN e
    ELSE IF path \in DOMAIN e.disk /\ e.disk[path].isDir
    THEN [err |-> "write", disk |-> e.disk]
    ELSE [err |-> "none", disk |-> MapPut(e.disk, path, DiskFile(content))]

\* scaffold.Options
ScaffoldOptions(templatePath, outputDir, variables, enabled, interactive, dryRun, overwrite) ==
    [TemplatePath |-> templatePath, OutputDir |-> outputDir,
     Variables |-> variables, EnabledIncludes |-> enabled,
     Interactive |-> interactive, DryRun |-> dryRun, Overwrite |-> overwrite]

\* What Scaffold returns: the error, the *Result (nil with an error) and,
\* for the checks, the disk it leaves, the context it rendered with, the
\* enabled map it composed with and the composed template.
Scaffolded(err, isNil, written, skipped, tmpl, rendered, d, variables, enabled) ==
    [err |-> err, isNil |-> isNil,
     FilesWritten |-> written, FilesSkipped |-> skipped,
     Dependencies |-> tmpl.Dependencies, PostInitCmds |-> tmpl.PostInit,
     RenderedFiles |-> rendered,
     disk |-> d, ctx |-> variables, enabledIncludes |-> enabled, composed |-> tmpl]

scaffoldFail(err, d) ==
    Scaffolded(err, TRUE, <<>>, <<>>, NilTemplate, EmptyMap, d, EmptyMap, EmptyMap)

\* The state of the write loop: the disk and the two lists of the result.
WriteState(err, d, written, skipped) ==
    [err |-> err, disk |-> d, written |-> written, skipped |-> skipped]

\* Faulty variant of writeFiles: a destination that exists is written over
\* and listed as skipped.
RECURSIVE writeFilesClobber(_, _, _, _, _)
writeFilesClobber(o, renderedFiles, order, i, st) ==
    IF i > Len(order) THEN st
    ELSE LET destPath == order[i]
             fullPath == Join(o.OutputDir, destPath)
             w == WriteFile(st.disk, fullPath, renderedFiles[destPath])
         IN IF w.err # "none" THEN WriteState(w.err, w.disk, st.written, st.skipped)
            ELSE IF Stat(st.disk, fullPath) /\ ~o.Overwrite
            THEN writeFilesClobber(o, renderedFiles, order, i + 1,
                     WriteState("none", w.disk, st.written, Append(st.skipped, destPath)))
            ELSE writeFilesClobber(o, renderedFiles, order, i + 1,
                     WriteState("none", w.disk, Append(st.written, destPath), st.skipped))

\* The loop of Scaffold over renderedFiles, in the order the range takes.
RECURSIVE writeFiles(_, _, _, _, _)
writeFiles(o, renderedFiles, order, i, st) ==
    IF i > Len(order) THEN st
    ELSE LET destPath == order[i]
             fullPath == Join(o.OutputDir, destPath)
         IN IF Stat(st.disk, fullPath) /\ ~o.Overwrite
            THEN writeFiles(o, renderedFiles, order, i + 1,
                     WriteState("none", st.disk, st.written, Append(st.skipped, destPath)))
            ELSE LET w == WriteFile(st.disk, fullPath, renderedFiles[destPath]) IN
                 IF w.err # "none"
                 THEN WriteState(w.err, w.disk, st.written, st.skipped)
                 ELSE writeFiles(o, renderedFiles, order, i + 1,
                          WriteState("none", w.disk, Append(st.written, destPath),
                                     st.skipped))

\* Scaffold from the validation on: validate the context, render, and
\* build the result.
scaffoldRender(tmpl, enabled, variables) ==
    IF ~ValidateContext(tmpl, variables) THEN scaffoldFail("validation", disk)
    ELSE LET rendered == RenderAll(tmpl, variables) IN
         IF rendered.err # "none" THEN scaffoldFail("render", disk)
         ELSE Scaffolded("none", FALSE, <<>>, <<>>, tmpl, rendered.results,
                         disk, variables, enabled)

\* Scaffold once the composer has returned: in interactive mode the
\* variables still missing are asked for.
scaffoldComposed(o, enabled, first, composed) ==
    IF composed.err # "none" THEN scaffoldFail("compose", disk)
    ELSE scaffoldRender(composed.tmpl, enabled,
                        IF o.Interactive THEN CollectMissing(composed.tmpl, first)
                        ELSE first)

\* Scaffold once the template is loaded: in interactive mode the includes
\* and variables are collected, asked over all the includes; the template
\* is composed with the enabled map.
scaffoldLoaded(o, ans, order, tmpl, all) ==
    IF o.Interactive /\ all.err # "none" THEN scaffoldFail("includes", disk)
    ELSE IF o.Interactive
    THEN scaffoldComposed(
             o, CollectWithIncludes(tmpl, all.includes, ans).enabledIncludes,
             Merge(CollectWithIncludes(tmpl, all.includes, ans).ctx, o.Variables),
             ComposeWithEnabledIncludes(
                 tmpl, CollectWithIncludes(tmpl, all.includes, ans).enabledIncludes,
                 order))
    ELSE scaffoldComposed(o, o.EnabledIncludes, o.Variables,
                          ComposeWithEnabledIncludes(tmpl, o.EnabledIncludes, order))

\* Scaffold up to the rendering: load, collect, compose, collect the
\* missing variables, validate, render.
prepare(o, ans, order) ==
    IF o.TemplatePath \notin DOMAIN loader THEN scaffoldFail("load", disk)
    ELSE scaffoldLoaded(o, ans, order, loader[o.TemplatePath],
                        GetAllIncludes(loader[o.TemplatePath]))

\* The orders a range over the keys of a map can take.
RangeOrders(m) ==
    {s \in SeqsOfLen(DOMAIN m, Cardinality(DOMAIN m)) :
        \A i, j \in 1..Len(s) : i # j => s[i] # s[j]}

\* Scaffold from the dry-run check on: r is what the steps before it left.
scaffoldWrite(o, writeOrder, r) ==
    IF r.err # "none" \/ o.DryRun THEN r
    ELSE LET st == writeFiles(o, r.RenderedFiles, writeOrder, 1,
                              WriteState("none", disk, <<>>, <<>>))
         IN IF st.err # "none" THEN scaffoldFail(st.err, st.disk)
            ELSE [r EXCEPT !.FilesWritten = st.written,
                           !.FilesSkipped = st.skipped, !.disk = st.disk]

\* Scaffolder.Scaffold(opts); order is the order of the dependency map
\* ranges, writeOrder the order of the range over the rendered files.
Scaffold(o, ans, order, writeOrder) ==
    scaffoldWrite(o, writeOrder, prepare(o, ans, order))

----------------------------------------------------------------------------
(* SpecScaffold: blueprint init and direct calls of Scaffold, on a project  *)
(* a that may include the features b and c, over output directories that    *)
(* hold some of the destinations already.                                   *)

\* Most includes the project of SpecScaffold declares.
MaxScaffoldIncludes == 2

NameB == <<"b">>
NameC == <<"c">>
PathFeaturesB == Join(Folder("feature"), NameB)
PathFeaturesC == Join(Folder("feature"), NameC)
Features == {PathFeaturesB, PathFeaturesC}

\* The output directory and the destinations in it.
OutputDir == <<"w">>
DestX == <<"x">>
DestSY == <<"s", "/", "y">>
OldContent == <<"o", "l", "d">>
DefaultP == <<"d">>
GivenP == <<"x">>

\* The project: one variable p, rendered into the content and the
\* destination of its one file.
ProjectA(role, default, includes) ==
    [Template(NameA, <<RoleVariable("p", role, default)>>, includes, <<>>,
              <<File(PathC, <<VarP>>)>>, <<PostInit("a1")>>)
        EXCEPT !.Type = "project"]

\* The feature b: a variable q with a default, a plain file copied to x.
FeatureB(role) ==
    [Template(NameB, <<RoleVariable("q", role, Default(<<"e">>))>>, <<>>, <<>>,
              <<File(PathDA, DestX)>>, <<PostInit("b1")>>)
        EXCEPT !.Type = "feature"]

\* The feature c: no variable, a template file rendered to s/y.
FeatureC ==
    [Template(NameC, <<>>, <<>>, <<>>, <<File(PathC, DestSY)>>, <<>>)
        EXCEPT !.Type = "feature"]

\* The include lists of the project: the features, either flag, no feature
\* twice.
IncludeLists ==
    {l \in SeqsUpTo({Include(k, f) : k \in Features, f \in BOOLEAN}, MaxScaffoldIncludes) :
        \A i, j \in 1..Len(l) : i # j => l[i].Template # l[j].Template}

\* A template file system that holds the project, the features, or both.
ScaffoldFS(hasProject, hasFeatures, roleA, default, includes, roleB) ==
    [q \in (IF hasProject THEN {PathProjectsA} ELSE {})
             \cup (IF hasFeatures THEN Features ELSE {}) |->
        CASE q = PathProjectsA -> ProjectA(roleA, default, includes)
          [] q = PathFeaturesB -> FeatureB(roleB)
          [] q = PathFeaturesC -> FeatureC]

\* Where the templates are: everything in both file systems, or the project
\* in one and the features in the other.
Placements == {"both", "projectLocal", "projectBuiltin"}

\* The output directory before the call: missing; holding x; holding x and
\* s/y; holding x and a file s where the directory of s/y has to be.
Disks ==
    { EmptyMap,
      [q \in {OutputDir, Join(OutputDir, DestX)} |->
          IF q = OutputDir THEN DiskDir ELSE DiskFile(OldContent)],
      [q \in {OutputDir, Join(OutputDir, DestX), Join(OutputDir, <<"s">>),
              Join(OutputDir, DestSY)} |->
          IF q \in {OutputDir, Join(OutputDir, <<"s">>)} THEN DiskDir
          ELSE DiskFile(OldContent)],
      [q \in {OutputDir, Join(OutputDir, DestX), Join(OutputDir, <<"s">>)} |->
          IF q = OutputDir THEN DiskDir ELSE DiskFile(OldContent)] }

\* What the user does at the include prompt.
Answers == {[toggled |-> t] : t \in SUBSET Features}

\* The Options of a direct call: with or without a value for p, and when
\* there are no prompts with an enabled map.
DirectOptions ==
    {ScaffoldOptions(PathProjectsA, OutputDir, v, e, i, d, o) :
        v \in {EmptyMap, [k \in {"p"} |-> GivenP]},
        e \in {EmptyMap, [k \in {PathFeaturesB} |-> FALSE],
               [k \in Features |-> TRUE]},
        i \in BOOLEAN, d \in BOOLEAN, o \in BOOLEAN}

\* The command line of blueprint init a, with or without --yes and --force,
\* and of blueprint init m, a project there is not.
NameM == <<"m">>
InitFlags ==
    {[template |-> NameA, output |-> OutputDir, yes |-> y, force |-> f] :
        y \in BOOLEAN, f \in BOOLEAN}
      \cup {[template |-> NameM, output |-> OutputDir, yes |-> TRUE, force |-> FALSE]}

InitScaffold ==
    /\ root = NilTemplate
    /\ enabledIncludes = EmptyMap
    /\ NoCall
    /\ NoDeps
    /\ NoHeap
    /\ ctx = EmptyMap
    /\ fsys = MakeFS(TRUE, FALSE, <<"h">>, "none", TRUE, <<"h", VarP>>)
    /\ loader = EmptyMap
    /\ opts = EmptyMap
    /\ disk \in Disks
    /\ answers \in Answers
    /\ \E roleA, roleB \in {NoRole, RoleProjectName} :
       \E default \in {NoDefault, Default(DefaultP)} :
       \E includes \in IncludeLists :
       \E placement \in Placements, dryRun \in BOOLEAN :
           /\ appCtx =
                 [LocalFS |-> ScaffoldFS(placement # "projectBuiltin",
                                         placement # "projectLocal",
                                         roleA, default, includes, roleB),
                  BuiltinFS |-> ScaffoldFS(placement # "projectLocal",
                                           placement # "projectBuiltin",
                                           roleA, default, includes, roleB),
                  Resolver |-> <<ResolverLocal, ResolverBuiltin>>,
                  Options |-> [Verbose |-> FALSE, DryRun |-> dryRun]]
           /\ \/ /\ pc = "init"
                 /\ flags \in InitFlags
                 /\ flags.yes => answers.toggled = {}
              \/ /\ pc = "direct"
                 /\ flags = EmptyMap
                 /\ placement = "both"
                 /\ ~dryRun

\* RunE of blueprint init up to the Scaffold call: resolve the template,
\* make the scaffolder on the file system it was found in, build the
\* Options from the flags.
DoInit ==
    /\ pc = "init"
    /\ LET resolved == ChainResolve(appCtx, TemplateRef(flags.template, "project")).res IN
       IF resolved.err # "none"
       THEN /\ pc' = "done"
            /\ out' = scaffoldFail(resolved.err, disk)
            /\ UNCHANGED <<loader, opts>>
       ELSE /\ pc' = "scaffold"
            /\ loader' = appCtx[resolved.FS]
            /\ opts' = ScaffoldOptions(resolved.Path, flags.output, EmptyMap, EmptyMap,
                                       ~flags.yes, FALSE, flags.force)
            /\ out' = out
    /\ call' = "init"
    /\ UNCHANGED <<root, enabledIncludes, prev, dst, src, merged, fsys, ctx,
                   appCtx, flags, disk, answers, heap>>

\* NewScaffolder(LocalFS) and the Options of a direct call.
DoNewScaffolder ==
    /\ pc = "direct"
    /\ pc' = "scaffold"
    /\ loader' = appCtx.LocalFS
    /\ opts' \in DirectOptions
    /\ opts'.Interactive \/ answers.toggled = {}
    /\ ~opts'.Interactive \/ opts'.EnabledIncludes = EmptyMap
    /\ call' = "NewScaffolder"
    /\ UNCHANGED <<root, enabledIncludes, out, prev, dst, src, merged, fsys, ctx,
                   appCtx, flags, disk, answers, heap>>

\* The call of Scaffold(opts).
DoScaffold ==
    /\ pc = "scaffold"
    /\ pc' = "done"
    /\ \E order \in MapOrders :
       \E writeOrder \in RangeOrders(prepare(opts, answers, order).RenderedFiles) :
           /\ out' = Scaffold(opts, answers, order, writeOrder)
           /\ disk' = out'.disk
    /\ call' = "Scaffold"
    /\ UNCHANGED <<loader, root, enabledIncludes, prev, dst, src, merged, fsys, ctx,
                   appCtx, flags, opts, answers, heap>>

NextScaffold == DoInit \/ DoNewScaffolder \/ DoScaffold

SpecScaffold == InitScaffold /\ [][NextScaffold]_vars

\* The Scaffold call has returned.
Scaffolding == call = "Scaffold" /\ pc = "done"
\* It was made by blueprint init.
FromInit == DOMAIN flags # {}

----------------------------------------------------------------------------
(* C21 *)

\* A dry run was asked for: by the Options of a direct call, or by the
\* --dry-run flag of the command line.
DryRunRequested == opts.DryRun \/ (FromInit /\ appCtx.Options.DryRun)

\* C21: a Scaffold call made for a dry run (Options.DryRun, or blueprint
\* init under --dry-run) writes no file and creates no directory, and when
\* it succeeds its result carries every rendered file.
C21_DryRunWritesNothing ==
    [][(pc = "scaffold" /\ DryRunRequested) =>
          /\ disk' = disk
          /\ out'.err = "none" =>
                /\ ~out'.isNil
                /\ out'.RenderedFiles = RenderAll(out'.composed, out'.ctx).results
                /\ out'.FilesWritten = <<>>]_vars

----------------------------------------------------------------------------
(* C22 *)

\* C22: a Scaffold call without Overwrite changes nothing that was in the
\* output directory before it, whether it succeeds, fails or is a dry run;
\* when it reaches the write loop and returns a result, every destination
\* that existed before the call is listed in FilesSkipped and not in
\* FilesWritten, and every destination that did not exist holds its
\* rendered content and is listed in FilesWritten and not in FilesSkipped.
C22_NeverClobbers ==
    [][(pc = "scaffold" /\ ~opts.Overwrite) =>
          /\ \A q \in DOMAIN disk : q \in DOMAIN disk' /\ disk'[q] = disk[q]
          /\ (out'.err = "none" /\ ~opts.DryRun) =>
                \A dest \in DOMAIN out'.RenderedFiles :
                   LET fullPath == Join(opts.OutputDir, dest) IN
                   IF fullPath \in DOMAIN disk
                   THEN /\ Contains(out'.FilesSkipped, dest)
                        /\ ~Contains(out'.FilesWritten, dest)
                   ELSE /\ Contains(out'.FilesWritten, dest)
                        /\ ~Contains(out'.FilesSkipped, dest)
                        /\ disk'[fullPath] = DiskFile(out'.RenderedFiles[dest])]_vars

\* The output directory held x and not s/y: x is skipped and keeps its
\* content, s/y and the project's file are written.
C22_Witness ==
    /\ Scaffolding
    /\ ~opts.Overwrite /\ ~opts.DryRun
    /\ out.err = "none"
    /\ out.FilesSkipped = <<DestX>>
    /\ Contains(out.FilesWritten, DestSY)
    /\ Len(out.FilesWritten) = 2
    /\ disk[Join(OutputDir, DestX)] = DiskFile(OldContent)
    /\ disk[Join(OutputDir, DestSY)] = DiskFile(<<"h", "u">>)

----------------------------------------------------------------------------
(* C23 *)

\* The variables of a template that have the role project_name, by position.
ProjectNameVariables(tmpl) ==
    {i \in 1..Len(tmpl.Variables) : tmpl.Variables[i].Role = RoleProjectName}

\* C23: a template that composition and validation accept (Scaffold
\* composed it, validated the context against it and returned no error) has
\* exactly one variable with the role project_name.
C23_OneProjectName ==
    (Scaffolding /\ out.err = "none") =>
        Cardinality(ProjectNameVariables(out.composed)) = 1

----------------------------------------------------------------------------
(* C25 *)

\* The include is not selected when the user confirms the prompt: it was
\* pre-selected and the user toggled it off, or it was not and the user
\* left it so.
Deselected(inc) ==
    IF inc.EnabledByDefault THEN inc.Template \in answers.toggled
    ELSE inc.Template \notin answers.toggled

\* C25: when an interactive Scaffold call succeeds, no direct include of the
\* template that the user left deselected in the include prompt is
\* composed: none of its files is in the composed template, whether or not
\* the include is enabled by default.
C25_DeselectedNotComposed ==
    (Scaffolding /\ opts.Interactive /\ out.err = "none") =>
        LET tmpl == loader[opts.TemplatePath] IN
        \A i \in 1..Len(tmpl.Includes) :
           Deselected(tmpl.Includes[i]) =>
               FileDests(loader[tmpl.Includes[i].Template])
                   \cap FileDests(out.composed) = {}

----------------------------------------------------------------------------
(* C26 *)

\* The context of the claim: the values supplied, and for every other
\* variable that declares a default, the default.
WithDefaults(tmpl, supplied) ==
    LET defaulted == {i \in 1..Len(tmpl.Variables) :
                         /\ tmpl.Variables[i].Name \notin DOMAIN supplied
                         /\ ~tmpl.Variables[i].Default.isNil}
    IN [k \in (DOMAIN supplied) \cup {tmpl.Variables[i].Name : i \in defaulted} |->
           IF k \in DOMAIN supplied THEN supplied[k]
           ELSE tmpl.Variables[CHOOSE i \in defaulted :
                                   tmpl.Variables[i].Name = k].Default.value]

\* C26: when a Scaffold call without prompts succeeds, every variable of the
\* composed template that declares a default and got no value has its
\* default in the rendering context, and the rendered files (content and
\* destination paths) are those rendered with the defaults.
C26_DefaultsApplied ==
    (Scaffolding /\ ~opts.Interactive /\ out.err = "none") =>
        /\ out.ctx = WithDefaults(out.composed, opts.Variables)
        /\ out.RenderedFiles =
               RenderAll(out.composed, WithDefaults(out.composed, opts.Variables)).results

----------------------------------------------------------------------------
(* C27 *)

\* The templates the resolver chain can find: those of the local and of the
\* builtin file system.
InChain == (DOMAIN appCtx.LocalFS) \cup (DOMAIN appCtx.BuiltinFS)

\* C27: in a run of blueprint init, when every include of the project has
\* its target in the local or in the builtin file system, no include fails
\* to load: neither the collection of the includes nor the composition
\* returns an error, wherever the project itself was resolved.
C27_IncludesViaChain ==
    (Scaffolding /\ FromInit
        /\ Targets(loader[opts.TemplatePath].Includes) \subseteq InChain) =>
        out.err \notin {"includes", "compose"}

----------------------------------------------------------------------------
(* The composer over the heap: templates are objects reached by pointer,    *)
(* their list fields slice headers over backing arrays that may be shared   *)
(* and may hold spare capacity. heap.objs and heap.arrs are the objects and *)
(* arrays allocated so far, an id being an index; heap.ids is the loader's  *)
(* map from path to the object it hands out, the same one on every Load.    *)

\* The zero value a cell holds until it is written.
Zero == [zero |-> TRUE]

Slice(arr, len) == [arr |-> arr, len |-> len]
NilSlice == Slice(0, 0)

Cap(h, s) == IF s.arr = 0 THEN 0 ELSE Len(h.arrs[s.arr])
Cell(h, s, i) == h.arrs[s.arr][i]
Elements(h, s) == [i \in 1..s.len |-> Cell(h, s, i)]

Max(a, b) == IF a >= b THEN a ELSE b
Min(a, b) == IF a <= b THEN a ELSE b

\* make([]T, n, c): a new array of c zero cells.
makeSlice(h, n, c) ==
    [h |-> [h EXCEPT !.arrs = Append(@, [i \in 1..c |-> Zero])],
     s |-> Slice(Len(h.arrs) + 1, n)]

\* copy(d, s): the first min(len(d), len(s)) cells of s written into d's array.
copySlice(h, d, s) ==
    IF Min(d.len, s.len) = 0 THEN h
    ELSE [h EXCEPT !.arrs[d.arr] =
            [i \in 1..Len(h.arrs[d.arr]) |->
                IF i <= Min(d.len, s.len) THEN Cell(h, s, i)
                ELSE h.arrs[d.arr][i]]]

\* append(s, vs...): written in place into s's array when the capacity
\* allows, into a new array of at least twice the capacity otherwise.
appendSlice(h, s, vs) ==
    LET n == s.len + Len(vs) IN
    IF Len(vs) = 0 THEN [h |-> h, s |-> s]
    ELSE IF n <= Cap(h, s)
    THEN [h |-> [h EXCEPT !.arrs[s.arr] =
                    [i \in 1..Len(h.arrs[s.arr]) |->
                        IF i > s.len /\ i <= n THEN vs[i - s.len]
                        ELSE h.arrs[s.arr][i]]],
          s |-> Slice(s.arr, n)]
    ELSE [h |-> [h EXCEPT !.arrs = Append(@,
                    [i \in 1..Max(2 * Cap(h, s), n) |->
                        IF i <= s.len THEN Cell(h, s, i)
                        ELSE IF i <= n THEN vs[i - s.len]
                        ELSE Zero])],
          s |-> Slice(Len(h.arrs) + 1, n)]

\* &Template{...}: a new object.
newObject(h, obj) ==
    [h |-> [h EXCEPT !.objs = Append(@, obj)], id |-> Len(h.objs) + 1]

\* The template an object holds, as its fields read.
Visible(h, id) ==
    [h.objs[id] EXCEPT
        !.Variables = Elements(h, @),
        !.Includes = Elements(h, @),
        !.Dependencies = Elements(h, @),
        !.Files = Elements(h, @),
        !.PostInit = Elements(h, @)]

HeapResult(err, h, id) == [err |-> err, h |-> h, id |-> id]
HeapIncludes(err, h, s) == [err |-> err, h |-> h, s |-> s]

\* Faulty variant of newComposed: no new object, composed is tmpl itself.
newComposedInPlace(h, id) ==
    [h |-> h, id |-> id]

\* composed := &Template{...} and the four copy calls.
newComposed(h, id) ==
    LET t == h.objs[id]
        v == makeSlice(h, t.Variables.len, t.Variables.len)
        i == makeSlice(v.h, 0, 0)
        d == makeSlice(i.h, t.Dependencies.len, t.Dependencies.len)
        f == makeSlice(d.h, t.Files.len, t.Files.len)
        p == makeSlice(f.h, t.PostInit.len, t.PostInit.len)
        o == newObject(p.h, [t EXCEPT !.Variables = v.s, !.Includes = i.s,
                                      !.Dependencies = d.s, !.Files = f.s,
                                      !.PostInit = p.s])
        c1 == copySlice(o.h, v.s, t.Variables)
        c2 == copySlice(c1, d.s, t.Dependencies)
        c3 == copySlice(c2, f.s, t.Files)
    IN [h |-> copySlice(c3, p.s, t.PostInit), id |-> o.id]

\* for _, v := range src.Variables { ... dst.Variables = append(...) }
RECURSIVE mergeVariablesOnHeap(_, _, _, _, _)
mergeVariablesOnHeap(h, dstId, srcSlice, existingVars, i) ==
    IF i > srcSlice.len THEN h
    ELSE LET v == Cell(h, srcSlice, i) IN
         IF v.Name \notin existingVars
         THEN LET a == appendSlice(h, h.objs[dstId].Variables, <<v>>) IN
              mergeVariablesOnHeap([a.h EXCEPT !.objs[dstId].Variables = a.s],
                                   dstId, srcSlice,
                                   existingVars \cup {v.Name}, i + 1)
         ELSE mergeVariablesOnHeap(h, dstId, srcSlice, existingVars, i + 1)

\* for _, f := range src.Files { ... dst.Files = append(...) }
RECURSIVE mergeFilesOnHeap(_, _, _, _, _)
mergeFilesOnHeap(h, dstId, srcSlice, existingDests, i) ==
    IF i > srcSlice.len THEN h
    ELSE LET f == Cell(h, srcSlice, i) IN
         IF f.Dest \notin existingDests
         THEN LET a == appendSlice(h, h.objs[dstId].Files, <<f>>) IN
              mergeFilesOnHeap([a.h EXCEPT !.objs[dstId].Files = a.s],
                               dstId, srcSlice,
                               existingDests \cup {f.Dest}, i + 1)
         ELSE mergeFilesOnHeap(h, dstId, srcSlice, existingDests, i + 1)

\* The variables of src merged into dst.Variables.
mergeVariablesInto(h, dstId, srcId) ==
    mergeVariablesOnHeap(h, dstId, h.objs[srcId].Variables,
                         {Cell(h, h.objs[dstId].Variables, j).Name :
                             j \in 1..h.objs[dstId].Variables.len}, 1)

\* result := make([]string, 0, len(depMap)), filled by append and assigned
\* to dst.Dependencies.
storeDependencies(h, dstId, result) ==
    LET r == appendSlice(makeSlice(h, 0, Len(result)).h,
                         Slice(Len(h.arrs) + 1, 0), result)
    IN [r.h EXCEPT !.objs[dstId].Dependencies = r.s]

\* dst.Dependencies = c.mergeDependencies(dst.Dependencies, src.Dependencies)
mergeDependenciesInto(h, dstId, srcId, order) ==
    storeDependencies(h, dstId,
                      mergeDependencies(Elements(h, h.objs[dstId].Dependencies),
                                        Elements(h, h.objs[srcId].Dependencies),
                                        order))

\* The files of src merged into dst.Files.
mergeFilesInto(h, dstId, srcId) ==
    mergeFilesOnHeap(h, dstId, h.objs[srcId].Files,
                     {Cell(h, h.objs[dstId].Files, j).Dest :
                         j \in 1..h.objs[dstId].Files.len}, 1)

\* dst.PostInit = append(dst.PostInit, src.PostInit...)
mergePostInitInto(h, dstId, srcId) ==
    LET p == appendSlice(h, h.objs[dstId].PostInit,
                         Elements(h, h.objs[srcId].PostInit))
    IN [p.h EXCEPT !.objs[dstId].PostInit = p.s]

\* mergeTemplate(dst, src) over the heap: every write goes through dst.
mergeTemplateOnHeap(h, dstId, srcId, order) ==
    mergePostInitInto(
        mergeFilesInto(
            mergeDependenciesInto(mergeVariablesInto(h, dstId, srcId),
                                  dstId, srcId, order),
            dstId, srcId),
        dstId, srcId)

RECURSIVE composeWithPathOnHeap(_, _, _, _)
RECURSIVE composeIncludesOnHeap(_, _, _, _, _, _)

\* for _, inc := range tmpl.Includes: the header is read once, each entry
\* when the loop comes to it.
composeIncludesOnHeap(h, includes, path, composedId, i, order) ==
    IF i > includes.len THEN HeapResult("none", h, composedId)
    ELSE LET inc == Cell(h, includes, i) IN
         IF Contains(path, inc.Template) THEN HeapResult("circular", h, 0)
         ELSE IF inc.Template \notin DOMAIN h.ids THEN HeapResult("load", h, 0)
         ELSE LET r == composeWithPathOnHeap(h, h.ids[inc.Template],
                                             Append(path, inc.Template), order)
              IN IF r.err # "none" THEN r
                 ELSE composeIncludesOnHeap(
                          mergeTemplateOnHeap(r.h, composedId, r.id, order),
                          includes, path, composedId, i + 1, order)

composeWithPathOnHeap(h, id, path, order) ==
    IF Len(path) > StackLimit THEN HeapResult("diverged", h, 0)
    ELSE LET c == newComposed(h, id) IN
         composeIncludesOnHeap(c.h, c.h.objs[id].Includes, path, c.id, 1, order)

ComposeOnHeap(h, id, order) ==
    composeWithPathOnHeap(h, id, <<h.objs[id].Name>>, order)

\* The loop that fills filtered.Includes.
RECURSIVE filterIncludesOnHeap(_, _, _, _, _)
filterIncludesOnHeap(h, includes, enabled, filteredId, i) ==
    IF i > includes.len THEN h
    ELSE LET inc == Cell(h, includes, i) IN
         IF includeEnabled(inc, enabled)
         THEN LET a == appendSlice(h, h.objs[filteredId].Includes, <<inc>>) IN
              filterIncludesOnHeap([a.h EXCEPT !.objs[filteredId].Includes = a.s],
                                   includes, enabled, filteredId, i + 1)
         ELSE filterIncludesOnHeap(h, includes, enabled, filteredId, i + 1)

\* filtered shares tmpl's Variables, Dependencies, Files and PostInit
\* slices; only its Includes are its own.
ComposeWithEnabledIncludesOnHeap(h, id, enabled, order) ==
    LET i == makeSlice(h, 0, 0)
        filtered == newObject(i.h, [h.objs[id] EXCEPT !.Includes = i.s])
    IN ComposeOnHeap(filterIncludesOnHeap(filtered.h, filtered.h.objs[id].Includes,
                                          enabled, filtered.id, 1),
                     filtered.id, order)

\* for _, transInc := range transitiveIncludes { ... append ... }
RECURSIVE appendUnseenOnHeap(_, _, _, _, _)
appendUnseenOnHeap(h, allIncludes, seen, transitiveIncludes, i) ==
    IF i > transitiveIncludes.len THEN [h |-> h, s |-> allIncludes, seen |-> seen]
    ELSE LET t == Cell(h, transitiveIncludes, i) IN
         IF t.Template \notin seen
         THEN LET a == appendSlice(h, allIncludes, <<t>>) IN
              appendUnseenOnHeap(a.h, a.s, seen \cup {t.Template},
                                 transitiveIncludes, i + 1)
         ELSE appendUnseenOnHeap(h, allIncludes, seen, transitiveIncludes, i + 1)

RECURSIVE getAllIncludesWithPathOnHeap(_, _, _)
RECURSIVE collectIncludesOnHeap(_, _, _, _, _, _)

collectIncludesOnHeap(h, includes, path, allIncludes, seen, i) ==
    IF i > includes.len THEN HeapIncludes("none", h, allIncludes)
    ELSE LET inc == Cell(h, includes, i) IN
         IF Contains(path, inc.Template) THEN HeapIncludes("circular", h, NilSlice)
         ELSE LET a == IF inc.Template \notin seen
                       THEN appendSlice(h, allIncludes, <<inc>>)
                       ELSE [h |-> h, s |-> allIncludes]
              IN IF inc.Template \notin DOMAIN h.ids
                 THEN HeapIncludes("load", a.h, NilSlice)
                 ELSE LET r == getAllIncludesWithPathOnHeap(
                                   a.h, h.ids[inc.Template],
                                   Append(path, inc.Template))
                      IN IF r.err # "none" THEN r
                         ELSE LET m == appendUnseenOnHeap(
                                           r.h, a.s, seen \cup {inc.Template},
                                           r.s, 1)
                              IN collectIncludesOnHeap(m.h, includes, path, m.s,
                                                       m.seen, i + 1)

getAllIncludesWithPathOnHeap(h, id, path) ==
    IF Len(path) > StackLimit THEN HeapIncludes("diverged", h, NilSlice)
    ELSE LET a == makeSlice(h, 0, 0) IN
         collectIncludesOnHeap(a.h, a.h.objs[id].Includes, path, a.s, {}, 1)

GetAllIncludesOnHeap(h, id) ==
    getAllIncludesWithPathOnHeap(h, id, <<h.objs[id].Name>>)

----------------------------------------------------------------------------
(* SpecHeap: sequences of at most MaxCalls calls of Compose,                *)
(* ComposeWithEnabledIncludes and GetAllIncludes over one heap. The loader  *)
(* holds one object per path and hands it out on every Load; the input of   *)
(* a call is the root object or the template an earlier call returned.      *)

MaxHeapEdges == 2
MaxCalls == 2
MaxSpare == 1

\* The list fields of a template, in the order their arrays are allocated.
ListFields(t) ==
    <<t.Variables, t.Includes, t.Dependencies, t.Files, t.PostInit>>

\* A list in an array that holds spare cells beyond its length.
arrayOf(elems, spare) ==
    [i \in 1..(Len(elems) + spare) |-> IF i <= Len(elems) THEN elems[i] ELSE Zero]

KeyOrder == <<"a", "b", "c", "d">>

\* The n-th object of the loader: its list fields are slices over the five
\* arrays allocated for it.
objectOf(t, n) ==
    [t EXCEPT !.Variables = Slice(5 * (n - 1) + 1, Len(@)),
              !.Includes = Slice(5 * (n - 1) + 2, Len(@)),
              !.Dependencies = Slice(5 * (n - 1) + 3, Len(@)),
              !.Files = Slice(5 * (n - 1) + 4, Len(@)),
              !.PostInit = Slice(5 * (n - 1) + 5, Len(@))]

\* The heap once the loader has decoded its templates: one object per
\* path, no array shared.
loadAll(ld, spare) ==
    LET present == SelectSeq(KeyOrder, LAMBDA k : k \in DOMAIN ld) IN
    [objs |-> [n \in 1..Len(present) |-> objectOf(ld[present[n]], n)],
     arrs |-> [a \in 1..(5 * Len(present)) |->
                 arrayOf(ListFields(ld[present[((a - 1) \div 5) + 1]])
                             [((a - 1) % 5) + 1], spare)],
     ids |-> [k \in DOMAIN ld |->
                 CHOOSE n \in 1..Len(present) : present[n] = k],
     log |-> <<>>]

HeapEnabledMaps == {EmptyMap, [k \in Keys |-> TRUE]}

Logged(op, input, err) == [op |-> op, input |-> input, err |-> err]
HeapOut(err, id, includes) == [err |-> err, id |-> id, includes |-> includes]

\* The templates a call can be handed: the root, or what the call before
\* returned.
Inputs ==
    {heap.ids[RootKey]}
        \cup (IF call \in {"Compose", "ComposeWithEnabledIncludes"}
                 /\ out.err = "none"
              THEN {out.id} ELSE {})

InitHeap ==
    /\ DrawWorld(MaxHeapEdges, SpecEntries, RootNames, {FALSE}, {{}, {"d"}})
    /\ \E spare \in 0..MaxSpare : heap = loadAll(loader, spare)
    /\ enabledIncludes = EmptyMap
    /\ NoCall
    /\ NoDeps
    /\ NoFiles
    /\ NoScaffold

DoComposeOnHeap ==
    /\ Len(heap.log) < MaxCalls
    /\ \E input \in Inputs, order \in MapOrders :
        LET r == ComposeOnHeap(heap, input, order) IN
        /\ heap' = [r.h EXCEPT !.log = Append(@, Logged("Compose", input, r.err))]
        /\ call' = "Compose"
        /\ out' = HeapOut(r.err, r.id, <<>>)
        /\ UNCHANGED enabledIncludes
    /\ UNCHANGED <<loader, root, prev, dst, src, merged, fsys, ctx, scaffoldVars>>

DoComposeWithEnabledIncludesOnHeap ==
    /\ Len(heap.log) < MaxCalls
    /\ \E input \in Inputs, order \in MapOrders, enabled \in HeapEnabledMaps :
        LET r == ComposeWithEnabledIncludesOnHeap(heap, input, enabled, order) IN
        /\ heap' = [r.h EXCEPT !.log =
                        Append(@, Logged("ComposeWithEnabledIncludes", input, r.err))]
        /\ call' = "ComposeWithEnabledIncludes"
        /\ out' = HeapOut(r.err, r.id, <<>>)
        /\ enabledIncludes' = enabled
    /\ UNCHANGED <<loader, root, prev, dst, src, merged, fsys, ctx, scaffoldVars>>

DoGetAllIncludesOnHeap ==
    /\ Len(heap.log) < MaxCalls
    /\ \E input \in Inputs :
        LET r == GetAllIncludesOnHeap(heap, input) IN
        /\ heap' = [r.h EXCEPT !.log = Append(@, Logged("GetAllIncludes", input, r.err))]
        /\ call' = "GetAllIncludes"
        /\ out' = HeapOut(r.err, 0, Elements(r.h, r.s))
        /\ UNCHANGED enabledIncludes
    /\ UNCHANGED <<loader, root, prev, dst, src, merged, fsys, ctx, scaffoldVars>>

NextHeap ==
    DoComposeOnHeap \/ DoComposeWithEnabledIncludesOnHeap \/ DoGetAllIncludesOnHeap

SpecHeap == InitHeap /\ [][NextHeap]_vars

----------------------------------------------------------------------------
(* C30 *)

\* The objects the loader hands out.
LoaderObjects == {heap.ids[k] : k \in DOMAIN heap.ids}

\* The call a step made.
LastCall == heap'.log[Len(heap'.log)]

\* C30: Compose, ComposeWithEnabledIncludes and GetAllIncludes leave their
\* input template and every template the loader returned unchanged: over
\* every call of a sequence, failing or not, with the loader handing out the
\* same object on every Load, each of them reads after the call as it did
\* before it, and the loader's templates as they did at the start.
C30_InputsUnchanged ==
    [][/\ \A id \in LoaderObjects \cup {LastCall.input} :
            Visible(heap', id) = Visible(heap, id)
       /\ \A k \in DOMAIN heap.ids : Visible(heap', heap.ids[k]) = loader[k]]_vars

\* The root includes b and then itself, the arrays hold spare capacity:
\* Compose has loaded and merged b and failed on the cycle, and
\* ComposeWithEnabledIncludes, handed the same objects, has returned a
\* template that holds what b declares.
C30_Witness ==
    /\ Len(root.Includes) = 2
    /\ root.Includes[1].Template = "b"
    /\ root.Includes[2].Template = RootKey
    /\ Len(heap.log) = 2
    /\ heap.log[1] = Logged("Compose", heap.ids[RootKey], "circular")
    /\ heap.log[2] = Logged("ComposeWithEnabledIncludes", heap.ids[RootKey], "none")
    /\ Visible(heap, out.id).PostInit = root.PostInit \o loader["b"].PostInit
    /\ Cap(heap, heap.objs[heap.ids["b"]].PostInit) > Len(loader["b"].PostInit)

====
